---- MODULE Spec2Model ----
(***************************************************************************)
(* A model of pkg/socks5/request.go of mieru: the SOCKS5 address codec     *)
(* (readAddrSpec / sendReply), the command dispatcher (handleRequest,      *)
(* handleConnect, handleBind) and the UDP associate relay with its two     *)
(* pumps (handleAssociate).                                                *)
(*                                                                         *)
(* Bytes are integers 0..255, byte slices and strings are sequences of     *)
(* bytes, a nil slice and the empty string are <<>>.  A pointer that may   *)
(* be nil, such as an AddrSpec pointer, is a sequence of length 0 or 1.    *)
(***************************************************************************)
EXTENDS Integers, Sequences, FiniteSets, TLC

VARIABLES
    \* ---- handleRequest and the handlers it dispatches to
    req,          \* the *Request: [Command, DestAddr]
    allowLocal,   \* s.config.AllowLocalDestination
    pc,           \* position of the handling goroutine
    ctx,          \* the context in use: "background" or "resolver"
    resolveCalls, \* number of calls of s.config.Resolver.Resolve
    connOut,      \* the messages handed to conn.Write by sendReply, in order
    ret,          \* what handleRequest returned: <<>> while running, else <<error>>
    dials,        \* the DialContext calls made: [addr, ctx, err], err <<>> on success
    target,       \* the dialed connection: "none", "open", "closed"
    relayLog,     \* bytes relayed by BidiCopy, as events
    metrics,      \* the process-wide counters of package metrics
    \* ---- handleAssociate and its two pumps
    udpConn,      \* the UDP socket: "none", "open", "closed"
    closeCalls,   \* number of udpConn.Close() calls
    udpPort,      \* the port of the UDP socket
    udpErr,       \* the atomic.Value: <<>> when empty, else <<error>>
    outPc,        \* outbound pump position
    outBuf,       \* outbound pump buf (the written prefix; the rest is zero)
    outN,         \* outbound pump n
    outErr,       \* outbound pump err of the last conn.Read
    tunnelReads,  \* datagrams the outbound pump read from the tunnel, in order
    udpWrites,    \* WriteToUDP calls: [k, dst, payload, ok], k the datagram's index
    inPc,         \* inbound pump position
    inBuf,        \* inbound pump buf
    inN,          \* inbound pump n
    inErr,        \* inbound pump err
    udpReads,     \* datagrams the inbound pump read from the UDP socket
    tunnelWrites, \* conn.Write calls of the inbound pump: [k, data]
    verdicts,     \* what the validation found for each datagram of tunnelReads
    crashed,      \* an unrecovered panic ended the process
    \* ---- the address codec on its own
    cpc,          \* position of the codec exercise
    cResp,        \* reply code given to sendReply
    cAddr,        \* *AddrSpec given to sendReply
    cMsg,         \* [err, msg]: what sendReply returned / wrote
    cRead,        \* what readAddrSpec returned on the written bytes
    \* ---- the parsers on a stream of bytes
    rStream,      \* the bytes the io.Reader delivers before it ends
    rPc,          \* which parser has been applied to the stream
    rAddr,        \* what readAddrSpec returned: [err, d, used]
    rReq,         \* what NewRequest returned: [err, req, used]
    \* ---- proxySocks5ConnReq: the forwarder between a client and a server
    down,         \* the bytes the client (conn) delivers before it ends
    up,           \* the bytes the server (proxyConn) delivers before it ends
    fPc,          \* position of proxySocks5ConnReq
    downUsed,     \* number of bytes taken from conn
    upUsed,       \* number of bytes taken from proxyConn
    toUp,         \* the slices handed to proxyConn.Write, in order
    toDown,       \* the slices handed to conn.Write, in order
    fCmd,         \* cmd
    connResp,     \* connResp (authResp in proxySocks5AuthReq)
    fUdp,         \* the forwarder's udpConn: [state, port]
    fRet,         \* what was returned: <<>> while running, else <<[udp, err]>>
    \* ---- one turn of the outbound pump's loop on its own
    turnBuf,      \* buf after conn.Read (the written prefix; the rest is zero)
    turnN,        \* n returned by conn.Read
    turnPc,       \* position within the turn
    turnOut       \* what the turn did: <<>> before, else <<[verdict, fwd]>>

handlerVars == <<req, allowLocal, pc, ctx, resolveCalls, connOut, ret, dials,
                 target, relayLog, metrics>>
pumpVars == <<udpConn, closeCalls, udpPort, udpErr, outPc, outBuf, outN, outErr,
              tunnelReads, udpWrites, inPc, inBuf, inN, inErr, udpReads,
              tunnelWrites, verdicts, crashed>>
codecVars == <<cpc, cResp, cAddr, cMsg, cRead>>
parseVars == <<rStream, rPc, rAddr, rReq>>
proxyVars == <<down, up, fPc, downUsed, upUsed, toUp, toDown, fCmd, connResp,
               fUdp, fRet>>
turnVars == <<turnBuf, turnN, turnPc, turnOut>>
vars == <<handlerVars, pumpVars, codecVars, parseVars, proxyVars, turnVars>>

----------------------------------------------------------------------------
(* Protocol constants: request.go:19-38 and socks5Version.                 *)

socks5Version == 5
ConnectCommand == 1
BindCommand == 2
AssociateCommand == 3
ipv4Address == 1
fqdnAddress == 3
ipv6Address == 4

successReply == 0
serverFailure == 1
ruleFailure == 2
networkUnreachable == 3
hostUnreachable == 4
connectionRefused == 5
ttlExpired == 6
commandNotSupported == 7
addrTypeNotSupported == 8

\* uint8 and uint16 ranges
ByteMod == 256
PortMod == 65536

Byte == 0..(ByteMod - 1)

----------------------------------------------------------------------------
(* Byte-sequence helpers.                                                  *)

\* s[a:b] of Go for a sequence s (0-based, half-open); requires a <= b <= Len(s)
Slice(s, a, b) == SubSeq(s, a + 1, b)

\* n copies of byte b
Fill(b, n) == [i \in 1..n |-> b]

\* net.IP.To4: the 4-byte form of an IPv4 address, nil otherwise
To4(ip) ==
    IF Len(ip) = 4 THEN ip
    ELSE IF /\ Len(ip) = 16
            /\ \A i \in 1..10 : ip[i] = 0
            /\ ip[11] = 255
            /\ ip[12] = 255
         THEN Slice(ip, 12, 16)
         ELSE <<>>

\* net.IP.To16: the 16-byte form, nil when the slice is no IP address
To16(ip) ==
    IF Len(ip) = 4 THEN Fill(0, 10) \o <<255, 255>> \o ip
    ELSE IF Len(ip) = 16 THEN ip
    ELSE <<>>

\* net.IP.IsLoopback
IsLoopback(ip) ==
    IF To4(ip) # <<>> THEN To4(ip)[1] = 127
    ELSE ip = Fill(0, 15) \o <<1>>

\* The AddrSpec struct
AddrSpec(fqdn, ip, port) == [FQDN |-> fqdn, IP |-> ip, Port |-> port]

Min(a, b) == IF a <= b THEN a ELSE b

----------------------------------------------------------------------------
(* The address codec.                                                      *)

\* io.ReadFull(r, make([]byte, k)) on the stream s read so far up to offset
\* off: all k bytes, or what is left of the stream and an error.
ReadFull(s, off, k) ==
    [ok   |-> off + k <= Len(s),
     data |-> Slice(s, off, Min(off + k, Len(s))),
     off  |-> Min(off + k, Len(s)),
     err  |-> IF off + k <= Len(s) THEN "nil"
              ELSE IF off = Len(s) THEN "EOF" ELSE "unexpectedEOF"]

\* The port of readAddrSpec: (int(port[0]) << 8) | int(port[1])
ReadPort(s, off, fqdn, ip) ==
    LET p == ReadFull(s, off, 2) IN
    IF ~p.ok THEN [err |-> p.err, d |-> <<>>, used |-> p.off]
    ELSE [err  |-> "nil",
          d    |-> <<AddrSpec(fqdn, ip, p.data[1] * ByteMod + p.data[2])>>,
          used |-> p.off]

\* A default case that skips the byte after the address type
UnrecognizedTypeSkipsByte(t) ==
    [err |-> "unrecognizedAddrType", d |-> <<>>, used |-> t.off + 1]

\* request.go:553-554: the default case of the switch on the address type; t
\* is the read of the type byte
UnrecognizedType(t) == [err |-> "unrecognizedAddrType", d |-> <<>>, used |-> t.off]

\* readAddrSpec(r) on the stream s: the error, the *AddrSpec returned and the
\* number of bytes it took from the stream.
readAddrSpec(s) ==
    LET t == ReadFull(s, 0, 1) IN
    IF ~t.ok THEN [err |-> t.err, d |-> <<>>, used |-> t.off]
    ELSE IF t.data[1] = ipv4Address THEN
        LET a == ReadFull(s, t.off, 4) IN
        IF ~a.ok THEN [err |-> a.err, d |-> <<>>, used |-> a.off]
        ELSE ReadPort(s, a.off, <<>>, a.data)
    ELSE IF t.data[1] = ipv6Address THEN
        LET a == ReadFull(s, t.off, 16) IN
        IF ~a.ok THEN [err |-> a.err, d |-> <<>>, used |-> a.off]
        ELSE ReadPort(s, a.off, <<>>, a.data)
    ELSE IF t.data[1] = fqdnAddress THEN
        LET l == ReadFull(s, t.off, 1) IN
        IF ~l.ok THEN [err |-> l.err, d |-> <<>>, used |-> l.off]
        ELSE LET a == ReadFull(s, l.off, l.data[1]) IN
             IF ~a.ok THEN [err |-> a.err, d |-> <<>>, used |-> a.off]
             ELSE ReadPort(s, a.off, a.data, <<>>)
    ELSE UnrecognizedType(t)

\* A switch whose IPv4 case takes addr.IP as it is, not its 4-byte form
FormatAddrRawIP(addr) ==
    IF addr = <<>> THEN
        [ok |-> TRUE, addrType |-> ipv4Address, addrBody |-> <<0, 0, 0, 0>>,
         addrPort |-> 0]
    ELSE IF addr[1].FQDN # <<>> THEN
        [ok |-> TRUE, addrType |-> fqdnAddress,
         addrBody |-> <<Len(addr[1].FQDN) % ByteMod>> \o addr[1].FQDN,
         addrPort |-> addr[1].Port % PortMod]
    ELSE IF To4(addr[1].IP) # <<>> THEN
        [ok |-> TRUE, addrType |-> ipv4Address, addrBody |-> addr[1].IP,
         addrPort |-> addr[1].Port % PortMod]
    ELSE IF To16(addr[1].IP) # <<>> THEN
        [ok |-> TRUE, addrType |-> ipv6Address, addrBody |-> To16(addr[1].IP),
         addrPort |-> addr[1].Port % PortMod]
    ELSE [ok |-> FALSE, addrType |-> 0, addrBody |-> <<>>, addrPort |-> 0]

\* The address part of sendReply (the switch): [ok, addrType, addrBody, addrPort]
FormatAddr(addr) ==
    IF addr = <<>> THEN
        [ok |-> TRUE, addrType |-> ipv4Address, addrBody |-> <<0, 0, 0, 0>>,
         addrPort |-> 0]
    ELSE IF addr[1].FQDN # <<>> THEN
        [ok |-> TRUE, addrType |-> fqdnAddress,
         addrBody |-> <<Len(addr[1].FQDN) % ByteMod>> \o addr[1].FQDN,
         addrPort |-> addr[1].Port % PortMod]
    ELSE IF To4(addr[1].IP) # <<>> THEN
        [ok |-> TRUE, addrType |-> ipv4Address, addrBody |-> To4(addr[1].IP),
         addrPort |-> addr[1].Port % PortMod]
    ELSE IF To16(addr[1].IP) # <<>> THEN
        [ok |-> TRUE, addrType |-> ipv6Address, addrBody |-> To16(addr[1].IP),
         addrPort |-> addr[1].Port % PortMod]
    ELSE [ok |-> FALSE, addrType |-> 0, addrBody |-> <<>>, addrPort |-> 0]

\* Port bytes without the shift: the low byte twice
PortBytesNoShift(addrPort) == <<addrPort % ByteMod, addrPort % ByteMod>>

\* The two port bytes of a reply: byte(addrPort >> 8), byte(addrPort & 0xff)
PortBytes(addrPort) == <<addrPort \div ByteMod, addrPort % ByteMod>>

\* The message sendReply formats: [ok, msg]; ok is FALSE when the address
\* cannot be formatted, and then nothing is written.
ReplyMsg(resp, addr) ==
    LET f == FormatAddr(addr) IN
    IF ~f.ok THEN [ok |-> FALSE, msg |-> <<>>]
    ELSE [ok  |-> TRUE,
          msg |-> <<socks5Version, resp, 0, f.addrType>> \o f.addrBody
                  \o PortBytes(f.addrPort)]

----------------------------------------------------------------------------
(* Errors.  An error value is [kind, typ]: what failed and the concrete    *)
(* (dynamic) type of the value, which atomic.Value.Store compares.         *)

Err(kind, typ) == [kind |-> kind, typ |-> typ]

\* the nil error
NoErr == Err("nil", "nil")

\* The concrete types an I/O error of the tunnel can have.  Errors of
\* package stderror are sentinel values of one type (StdErrType); errors of a
\* net.UDPConn are of type *net.OpError.
StdErrType == "errorString"
OpErrType == "OpError"
ErrTypes == {StdErrType, OpErrType}

----------------------------------------------------------------------------
(* The inputs.                                                             *)

\* "localhost" and "x.y"
NameLocalhost == <<108, 111, 99, 97, 108, 104, 111, 115, 116>>
NameXY == <<120, 46, 121>>

IPv4Public == <<93, 184, 216, 34>>
IPv4Loopback == <<127, 0, 0, 1>>
IPv4Mapped == Fill(0, 10) \o <<255, 255, 10, 0, 0, 7>>
IPv6Loopback == Fill(0, 15) \o <<1>>
IPv6Public == <<32, 1, 13, 184>> \o Fill(0, 11) \o <<1>>

\* Destinations of the requests: what readAddrSpec can return
Dests ==
    {AddrSpec(<<>>, ip, 80) : ip \in {IPv4Public, IPv4Loopback, IPv6Loopback}}
    \cup {AddrSpec(n, <<>>, 443) : n \in {NameLocalhost, NameXY}}

\* Addresses the resolver can answer with
ResolvedIPs == {IPv4Public, IPv4Loopback}

\* Command bytes of the requests: the three commands and two other values
Commands == {0, ConnectCommand, BindCommand, AssociateCommand, 4}

\* The requests handled.  handleAssociate reads nothing of its request, so
\* ASSOCIATE is asked for with one address and one name only.
Requests ==
    [Command : Commands \ {AssociateCommand}, DestAddr : Dests]
    \cup [Command : {AssociateCommand},
          DestAddr : {AddrSpec(<<>>, IPv4Public, 80), AddrSpec(NameLocalhost, <<>>, 443)}]

\* Local addresses of a dialed TCP connection (net.TCPAddr: 4 or 16 bytes)
LocalAddrs == {AddrSpec(<<>>, ip, 50000) : ip \in {<<10, 0, 0, 7>>, IPv4Mapped, IPv6Public}}

\* Ports the operating system can assign to the UDP socket
UdpPorts == {40000}

\* The text of a dial error: whether it contains "refused" and whether it
\* contains "network is unreachable"
DialErrors == [refused : BOOLEAN, netUnreachable : BOOLEAN]

\* Number of relay events of one CONNECT session that are recorded
MaxRelay == 2

----------------------------------------------------------------------------
(* The counters of package metrics.                                        *)

Counters == {"Socks5DNSResolveErrors", "Socks5UnsupportedCommandErrors",
             "Socks5ConnectionRefusedErrors", "Socks5NetworkUnreachableErrors",
             "Socks5HostUnreachableErrors", "Socks5HandshakeErrors",
             "Socks5UDPAssociateErrors", "UDPAssociateOutPkts",
             "UDPAssociateOutBytes", "UDPAssociateInPkts", "UDPAssociateInBytes"}

\* atomic.AddUint64(&metrics.c, d)
AddUint64(m, c, d) == [m EXCEPT ![c] = @ + d]

----------------------------------------------------------------------------
(* handleRequest.                                                          *)

\* A dial string that takes the name when there is one
AddressPreferName(a) ==
    IF Len(a.FQDN) # 0 THEN [host |-> <<"name", a.FQDN>>, port |-> a.Port]
    ELSE [host |-> <<"ip", a.IP>>, port |-> a.Port]

\* AddrSpec.Address: the dial string, as [host, port]; the IP when there is one
Address(a) ==
    IF Len(a.IP) # 0 THEN [host |-> <<"ip", a.IP>>, port |-> a.Port]
    ELSE [host |-> <<"name", a.FQDN>>, port |-> a.Port]

\* A test that looks at the name only
isLocalhostDestNameOnly(r) == r.DestAddr.FQDN = NameLocalhost

\* isLocalhostDest(req)
isLocalhostDest(r) ==
    r.DestAddr.FQDN = NameLocalhost \/ IsLoopback(r.DestAddr.IP)

\* A sendReply that writes its message twice
sendReplyTwice(out, resp, addr) ==
    IF ReplyMsg(resp, addr).ok
    THEN out \o <<ReplyMsg(resp, addr).msg, ReplyMsg(resp, addr).msg>>
    ELSE out

\* sendReply(conn, resp, addr): the connection's output after the call.  The
\* message is handed to conn.Write whole; nothing is written when the
\* address cannot be formatted.
sendReply(out, resp, addr) ==
    IF ReplyMsg(resp, addr).ok THEN Append(out, ReplyMsg(resp, addr).msg) ELSE out

\* The pump variables before handleAssociate starts the pumps
PumpIdle ==
    /\ udpConn = "none"
    /\ closeCalls = 0
    /\ udpPort = 0
    /\ udpErr = <<>>
    /\ outPc = "idle"
    /\ outBuf = <<>>
    /\ outN = 0
    /\ outErr = NoErr
    /\ tunnelReads = <<>>
    /\ udpWrites = <<>>
    /\ inPc = "idle"
    /\ inBuf = <<>>
    /\ inN = 0
    /\ inErr = NoErr
    /\ udpReads = <<>>
    /\ tunnelWrites = <<>>
    /\ verdicts = <<>>
    /\ crashed = FALSE

CodecIdle ==
    /\ cpc = "idle"
    /\ cResp = 0
    /\ cAddr = <<>>
    /\ cMsg = [ok |-> FALSE, msg |-> <<>>]
    /\ cRead = [err |-> "nil", d |-> <<>>, used |-> 0]

ParseIdle ==
    /\ rStream = <<>>
    /\ rPc = "idle"
    /\ rAddr = [err |-> "nil", d |-> <<>>, used |-> 0]
    /\ rReq = [err |-> "nil", req |-> <<>>, used |-> 0]

ProxyIdle ==
    /\ down = <<>>
    /\ up = <<>>
    /\ fPc = "idle"
    /\ downUsed = 0
    /\ upUsed = 0
    /\ toUp = <<>>
    /\ toDown = <<>>
    /\ fCmd = 0
    /\ connResp = <<>>
    /\ fUdp = [state |-> "none", port |-> 0]
    /\ fRet = <<>>

TurnIdle ==
    /\ turnBuf = <<>>
    /\ turnN = 0
    /\ turnPc = "idle"
    /\ turnOut = <<>>

\* A request parsed by NewRequest reaches handleRequest
Init ==
    /\ req \in Requests
    /\ allowLocal \in BOOLEAN
    /\ pc = "resolve"
    /\ ctx = "background"
    /\ resolveCalls = 0
    /\ connOut = <<>>
    /\ ret = <<>>
    /\ dials = <<>>
    /\ target = [state |-> "none", local |-> <<>>]
    /\ relayLog = <<>>
    /\ metrics = [c \in Counters |-> 0]
    /\ PumpIdle
    /\ CodecIdle
    /\ ParseIdle
    /\ ProxyIdle
    /\ TurnIdle

\* handleRequest returns e
Return(e) == ret' = <<e>> /\ pc' = "returned"

\* request.go:114-127: resolve the address if we have a FQDN; code is the
\* reply sent when the resolver fails
HandleRequestResolveReplying(code) ==
    /\ pc = "resolve"
    /\ IF req.DestAddr.FQDN # <<>>
       THEN /\ resolveCalls' = resolveCalls + 1
            /\ \/ \* the resolver fails
                  /\ metrics' = AddUint64(metrics, "Socks5DNSResolveErrors", 1)
                  /\ connOut' = sendReply(connOut, code, <<>>)
                  /\ \E wok \in BOOLEAN :
                        Return(IF wok THEN Err("resolve", "wrapError")
                                      ELSE Err("sendReply", "wrapError"))
                  /\ UNCHANGED <<req, ctx>>
               \/ \E addr \in ResolvedIPs :
                  /\ ctx' = "resolver"
                  /\ req' = [req EXCEPT !.DestAddr.IP = addr]
                  /\ pc' = "policy"
                  /\ UNCHANGED <<metrics, connOut, ret>>
       ELSE /\ pc' = "policy"
            /\ UNCHANGED <<req, ctx, resolveCalls, metrics, connOut, ret>>
    /\ UNCHANGED <<allowLocal, dials, target, relayLog>>
    /\ UNCHANGED <<pumpVars, codecVars, parseVars, proxyVars, turnVars>>

\* A resolver failure answered with networkUnreachable
HandleRequestResolveNetUnreachable == HandleRequestResolveReplying(networkUnreachable)

\* The resolver failure is answered with hostUnreachable
HandleRequestResolve == HandleRequestResolveReplying(hostUnreachable)

\* request.go:129-132: return error if access local destination is not
\* allowed; deniedOut is what the connection has been sent when it is denied
HandleRequestPolicyWith(deniedOut) ==
    /\ pc = "policy"
    /\ IF ~allowLocal /\ isLocalhostDest(req)
       THEN Return(Err("localhostNotAllowed", "errorString")) /\ connOut' = deniedOut
       ELSE pc' = "dispatch" /\ UNCHANGED <<ret, connOut>>
    /\ UNCHANGED <<req, allowLocal, ctx, resolveCalls, dials, target, relayLog,
                   metrics>>
    /\ UNCHANGED <<pumpVars, codecVars, parseVars, proxyVars, turnVars>>

\* A policy check that answers ruleFailure before it returns
HandleRequestPolicyReplying ==
    HandleRequestPolicyWith(sendReply(connOut, ruleFailure, <<>>))

\* The policy check returns without a reply
HandleRequestPolicy == HandleRequestPolicyWith(connOut)

\* request.go:142-148: the default case of the switch on the command, adding
\* k to the counter
HandleUnsupportedCounting(k) ==
    /\ pc = "dispatch"
    /\ req.Command \notin {ConnectCommand, BindCommand, AssociateCommand}
    /\ metrics' = AddUint64(metrics, "Socks5UnsupportedCommandErrors", k)
    /\ connOut' = sendReply(connOut, commandNotSupported, <<>>)
    /\ \E wok \in BOOLEAN :
          Return(IF wok THEN Err("unsupportedCommand", "errorString")
                        ELSE Err("sendReply", "wrapError"))
    /\ UNCHANGED <<req, allowLocal, ctx, resolveCalls, dials, target, relayLog>>
    /\ UNCHANGED <<pumpVars, codecVars, parseVars, proxyVars, turnVars>>

\* A default case that counts the command twice
HandleUnsupportedCountedTwice == HandleUnsupportedCounting(2)

\* The default case counts the command once
HandleUnsupported == HandleUnsupportedCounting(1)

\* handleBind, request.go:187-194, replying with the given code
HandleBindWith(code) ==
    /\ pc = "dispatch"
    /\ req.Command = BindCommand
    /\ connOut' = sendReply(connOut, code, <<>>)
    /\ \E wok \in BOOLEAN :
          IF wok
          THEN /\ metrics' = AddUint64(metrics, "Socks5UnsupportedCommandErrors", 1)
               /\ Return(NoErr)
          ELSE /\ metrics' = AddUint64(
                      AddUint64(metrics, "Socks5UnsupportedCommandErrors", 1),
                      "Socks5HandshakeErrors", 1)
               /\ Return(Err("sendReply", "wrapError"))
    /\ UNCHANGED <<req, allowLocal, ctx, resolveCalls, dials, target, relayLog>>
    /\ UNCHANGED <<pumpVars, codecVars, parseVars, proxyVars, turnVars>>

\* A handleBind that answers serverFailure
HandleBindServerFailure == HandleBindWith(serverFailure)

HandleBind == HandleBindWith(commandNotSupported)

----------------------------------------------------------------------------
(* handleConnect.                                                          *)

\* A choice of reply code that looks for "network is unreachable" first
DialReplyUnreachableFirst(e) ==
    IF e.netUnreachable THEN networkUnreachable
    ELSE IF e.refused THEN connectionRefused
    ELSE hostUnreachable

\* request.go:158-167: the reply code for the text of a dial error
DialReply(e) ==
    IF e.refused THEN connectionRefused
    ELSE IF e.netUnreachable THEN networkUnreachable
    ELSE hostUnreachable

\* request.go:158-167: the counter incremented for the text of a dial error
DialCounter(e) ==
    IF e.refused THEN "Socks5ConnectionRefusedErrors"
    ELSE IF e.netUnreachable THEN "Socks5NetworkUnreachableErrors"
    ELSE "Socks5HostUnreachableErrors"

\* request.go:153-173: dial the destination; on failure reply and return
HandleConnectDial ==
    /\ pc = "dispatch"
    /\ req.Command = ConnectCommand
    /\ \/ \E e \in DialErrors :
             /\ dials' = Append(dials, [addr |-> Address(req.DestAddr), ctx |-> ctx,
                                        err |-> <<e>>])
             /\ metrics' = AddUint64(metrics, DialCounter(e), 1)
             /\ connOut' = sendReply(connOut, DialReply(e), <<>>)
             /\ \E wok \in BOOLEAN :
                   Return(IF wok THEN Err("connectFailed", "wrapError")
                                 ELSE Err("sendReply", "wrapError"))
             /\ UNCHANGED target
       \/ \E local \in LocalAddrs :
             /\ dials' = Append(dials, [addr |-> Address(req.DestAddr), ctx |-> ctx,
                                        err |-> <<>>])
             /\ target' = [state |-> "open", local |-> <<local>>]
             /\ pc' = "connectReply"
             /\ UNCHANGED <<metrics, connOut, ret>>
    /\ UNCHANGED <<req, allowLocal, ctx, resolveCalls, relayLog>>
    /\ UNCHANGED <<pumpVars, codecVars, parseVars, proxyVars, turnVars>>

\* A bind address that takes the destination's port
BindOfDestPort(local) == AddrSpec(<<>>, local.IP, req.DestAddr.Port)

\* request.go:176-177: bind := AddrSpec{IP: local.IP, Port: local.Port}
BindOf(local) == AddrSpec(<<>>, local.IP, local.Port)

\* request.go:175-181: send success with the local address of the target
HandleConnectReply ==
    /\ pc = "connectReply"
    /\ connOut' = sendReply(connOut, successReply, <<BindOf(target.local[1])>>)
    /\ \/ /\ pc' = "relay"
          /\ UNCHANGED <<metrics, ret, target>>
       \/ /\ metrics' = AddUint64(metrics, "Socks5HandshakeErrors", 1)
          /\ target' = [target EXCEPT !.state = "closed"]
          /\ Return(Err("sendReply", "wrapError"))
    /\ UNCHANGED <<req, allowLocal, ctx, resolveCalls, dials, relayLog>>
    /\ UNCHANGED <<pumpVars, codecVars, parseVars, proxyVars, turnVars>>

\* BidiCopy(conn, target, false), request.go:183: one chunk of bytes is
\* copied in one of the two directions
RelayCopy ==
    /\ pc = "relay"
    /\ Len(relayLog) < MaxRelay
    /\ \E dir \in {"toTarget", "toClient"} : relayLog' = Append(relayLog, dir)
    /\ UNCHANGED <<req, allowLocal, pc, ctx, resolveCalls, connOut, ret, dials,
                   target, metrics>>
    /\ UNCHANGED <<pumpVars, codecVars, parseVars, proxyVars, turnVars>>

\* BidiCopy returns (one side closed or failed) and handleConnect returns its
\* result; the deferred target.Close() runs
RelayEnd ==
    /\ pc = "relay"
    /\ target' = [target EXCEPT !.state = "closed"]
    /\ \E e \in {NoErr, Err("relay", "wrapError")} : Return(e)
    /\ UNCHANGED <<req, allowLocal, ctx, resolveCalls, connOut, dials, relayLog,
                   metrics>>
    /\ UNCHANGED <<pumpVars, codecVars, parseVars, proxyVars, turnVars>>

----------------------------------------------------------------------------
(* handleAssociate, up to the start of the pumps.                          *)

\* request.go:198-222: create a UDP listener on a random port.  The port is
\* parsed from udpConn.LocalAddr().String(), which is always host:port with a
\* decimal port, so SplitHostPort and Atoi do not fail.
HandleAssociateListen ==
    /\ pc = "dispatch"
    /\ req.Command = AssociateCommand
    /\ \/ /\ metrics' = AddUint64(metrics, "Socks5UDPAssociateErrors", 1)
          /\ \E k \in {"resolveUDPAddr", "listenUDP"} : Return(Err(k, "wrapError"))
          /\ UNCHANGED <<udpConn, udpPort>>
       \/ /\ udpConn' = "open"
          /\ udpPort' \in UdpPorts
          /\ pc' = "associateReply"
          /\ UNCHANGED <<metrics, ret>>
    /\ UNCHANGED <<req, allowLocal, ctx, resolveCalls, connOut, dials, target,
                   relayLog>>
    /\ UNCHANGED <<closeCalls, udpErr, outPc, outBuf, outN, outErr, tunnelReads,
                   udpWrites, inPc, inBuf, inN, inErr, udpReads, tunnelWrites,
                   verdicts, crashed>>
    /\ UNCHANGED <<codecVars, parseVars, proxyVars, turnVars>>

\* A bind address that leaves the port zero
AssociateBindNoPort(port) == AddrSpec(<<>>, <<0, 0, 0, 0>>, 0)

\* request.go:223: bind := AddrSpec{IP: net.IP{0, 0, 0, 0}, Port: udpPort}
AssociateBind(port) == AddrSpec(<<>>, <<0, 0, 0, 0>>, port)

\* request.go:223-233: reply success with 0.0.0.0:<port>, then start the pumps
HandleAssociateReply ==
    /\ pc = "associateReply"
    /\ connOut' = sendReply(connOut, successReply, <<AssociateBind(udpPort)>>)
    /\ \/ /\ pc' = "pumps"
          /\ outPc' = "read"
          /\ inPc' = "read"
          /\ UNCHANGED <<metrics, ret>>
       \/ /\ metrics' = AddUint64(metrics, "Socks5HandshakeErrors", 1)
          /\ Return(Err("sendReply", "wrapError"))
          /\ UNCHANGED <<outPc, inPc>>
    /\ UNCHANGED <<req, allowLocal, ctx, resolveCalls, dials, target, relayLog>>
    /\ UNCHANGED <<udpConn, closeCalls, udpPort, udpErr, outBuf, outN, outErr,
                   tunnelReads, udpWrites, inBuf, inN, inErr, udpReads,
                   tunnelWrites, verdicts, crashed>>
    /\ UNCHANGED <<codecVars, parseVars, proxyVars, turnVars>>

----------------------------------------------------------------------------
(* The pumps of handleAssociate: buffers and datagrams.                    *)

\* len(buf) of both pumps: make([]byte, 1<<16)
BufSize == 65536

\* Datagrams each pump reads in one session, at most
MaxOutReads == 2
MaxInReads == 1

\* buf[i] (0-based): a buffer is kept as its prefix written so far, the rest
\* of its BufSize bytes being zero as make() left them
BufAt(buf, i) == IF i < Len(buf) THEN buf[i + 1] ELSE 0

\* A Read that leaves a buffer already written as it is
ReadIntoKeepsOld(buf, d) == IF buf = <<>> THEN d ELSE buf

\* buf after a Read that returned datagram d: d over the first Len(d) bytes,
\* the bytes of earlier reads after them
ReadInto(buf, d) == d \o SubSeq(buf, Len(d) + 1, Len(buf))

\* buf[a:b]: [ok, data], ok FALSE when the slice bounds are out of range,
\* which is a run-time panic
SliceBuf(buf, a, b) ==
    [ok   |-> a <= b /\ b <= BufSize,
     data |-> IF a <= b /\ b <= BufSize
              THEN [i \in 1..(b - a) |-> BufAt(buf, a + i - 1)]
              ELSE <<>>]

\* The header of a UDP request to 8.8.8.8:53 and to [2001:db8::1]:53
HdrV4 == <<0, 0, 0, ipv4Address, 8, 8, 8, 8, 0, 53>>
HdrV6 == <<0, 0, 0, ipv6Address>> \o IPv6Public \o <<0, 53>>
HdrName == <<0, 0, 0, fqdnAddress, 3>> \o NameXY \o <<1, 187>>

\* A name of 251 bytes: 5 + 251 does not fit a byte
LongName == Fill(97, 251)

\* Datagrams the tunnel can deliver to the outbound pump
TunnelDatagrams ==
    { <<0, 0, 0>>,                                   \* n <= 6
      <<0, 1, 0, ipv4Address, 8, 8, 8, 8>>,          \* reserved byte, and short
      <<0, 0, 1>> \o SubSeq(HdrV4, 4, 10) \o <<170>>,   \* FRAG
      <<0, 0, 0, 2, 8, 8, 8, 8, 0, 53, 170>>,        \* ATYP 2
      HdrV4,                                         \* IPv4, n = 10
      HdrV4 \o <<170>>,                              \* IPv4, n = 11
      SubSeq(HdrName, 1, 9),                         \* name, n = 6 + len
      HdrName,                                       \* name, n = 7 + len: no payload
      HdrV6,                                         \* IPv6, n = 22
      HdrV6 \o <<238>>,                              \* IPv6, n = 23
      <<0, 0, 0, fqdnAddress, Len(LongName)>> \o LongName
          \o <<0, 53, 17>> }                         \* name of 251 bytes

\* Datagrams the network can deliver to the UDP socket
UdpDatagrams == { <<1, 2, 3>>, <<9>> }

----------------------------------------------------------------------------
(* The outbound pump: tunnel to network.                                   *)

\* A validation whose length guard for a name is n <= int(buf[4])+5
ValidateNameOffByOne(buf, n) ==
    IF n <= 6 THEN "ErrNoEnoughData"
    ELSE IF BufAt(buf, 0) # 0 \/ BufAt(buf, 1) # 0 THEN "ErrInvalidArgument"
    ELSE IF BufAt(buf, 2) # 0 THEN "ErrUnsupported"
    ELSE IF BufAt(buf, 3) \notin {ipv4Address, fqdnAddress, ipv6Address}
         THEN "ErrInvalidArgument"
    ELSE IF \/ BufAt(buf, 3) = ipv4Address /\ n <= 10
            \/ BufAt(buf, 3) = fqdnAddress /\ n <= BufAt(buf, 4) + 5
            \/ BufAt(buf, 3) = ipv6Address /\ n <= 22
         THEN "ErrNoEnoughData"
    ELSE "nil"

\* request.go:249-276: the stderror value stored for a datagram of n bytes in
\* buf, "nil" when the datagram passes
Validate(buf, n) ==
    IF n <= 6 THEN "ErrNoEnoughData"
    ELSE IF BufAt(buf, 0) # 0 \/ BufAt(buf, 1) # 0 THEN "ErrInvalidArgument"
    ELSE IF BufAt(buf, 2) # 0 THEN "ErrUnsupported"
    ELSE IF BufAt(buf, 3) \notin {ipv4Address, fqdnAddress, ipv6Address}
         THEN "ErrInvalidArgument"
    ELSE IF \/ BufAt(buf, 3) = ipv4Address /\ n <= 10
            \/ BufAt(buf, 3) = fqdnAddress /\ n <= BufAt(buf, 4) + 6
            \/ BufAt(buf, 3) = ipv6Address /\ n <= 22
         THEN "ErrNoEnoughData"
    ELSE "nil"

\* uint8 addition, as in 5+fqdnLen with fqdnLen a byte
AddU8(a, b) == (a + b) % ByteMod

\* The end of the payload slice handed to WriteToUDP: buf[...:n+1]
PayloadEnd(n) == n + 1

\* request.go:279-331: what the switch on addrType does with a datagram that
\* passed validation: the destination and the payload slice.
\*   namePanic: buf[5 : 5+fqdnLen] is out of range
\*   dst:       the UDP destination (for a name: the name and port resolved)
\*   payload:   the slice handed to WriteToUDP, [ok, data]
Forward(buf, n) ==
    IF BufAt(buf, 3) = ipv4Address THEN
        [namePanic |-> FALSE,
         dst |-> [host |-> <<"ip", SliceBuf(buf, 4, 8).data>>,
                  port |-> BufAt(buf, 8) * ByteMod + BufAt(buf, 9)],
         payload |-> SliceBuf(buf, 10, PayloadEnd(n))]
    ELSE IF BufAt(buf, 3) = fqdnAddress THEN
        LET fqdnLen == BufAt(buf, 4) IN
        [namePanic |-> ~SliceBuf(buf, 5, AddU8(5, fqdnLen)).ok,
         dst |-> [host |-> <<"name", SliceBuf(buf, 5, AddU8(5, fqdnLen)).data>>,
                  port |-> BufAt(buf, AddU8(5, fqdnLen)) * ByteMod
                           + BufAt(buf, AddU8(6, fqdnLen))],
         payload |-> SliceBuf(buf, AddU8(7, fqdnLen), PayloadEnd(n))]
    ELSE
        [namePanic |-> FALSE,
         dst |-> [host |-> <<"ip", SliceBuf(buf, 4, 20).data>>,
                  port |-> BufAt(buf, 20) * ByteMod + BufAt(buf, 21)],
         payload |-> SliceBuf(buf, 22, PayloadEnd(n))]

\* atomic.Value.Store(e) panics when a value of another concrete type is
\* already stored
CanStore(box, e) == box = <<>> \/ box[1].typ = e.typ

\* request.go:243: n, err = conn.Read(buf)
OutboundRead ==
    /\ pc = "pumps" /\ ~crashed
    /\ outPc = "read"
    /\ \/ \E d \in TunnelDatagrams :
             /\ Len(tunnelReads) < MaxOutReads
             /\ outBuf' = ReadInto(outBuf, d)
             /\ outN' = Len(d)
             /\ outErr' = NoErr
             /\ tunnelReads' = Append(tunnelReads, d)
       \/ \E t \in ErrTypes :
             /\ outErr' = Err("tunnelRead", t)
             /\ outN' = 0
             /\ UNCHANGED <<outBuf, tunnelReads>>
    /\ outPc' = "process"
    /\ UNCHANGED <<udpConn, closeCalls, udpPort, udpErr, udpWrites, inPc, inBuf,
                   inN, inErr, udpReads, tunnelWrites, verdicts, crashed>>
    /\ UNCHANGED <<handlerVars, codecVars, parseVars, proxyVars, turnVars>>

\* The outbound pump stores e and returns (metered by d), or panics in Store
OutboundFail(e, d) ==
    /\ IF CanStore(udpErr, e)
       THEN /\ udpErr' = <<e>>
            /\ metrics' = AddUint64(metrics, "Socks5UDPAssociateErrors", d)
            /\ outPc' = "exit"
       ELSE /\ outPc' = "panic"
            /\ UNCHANGED <<udpErr, metrics>>
    /\ UNCHANGED udpWrites

\* A failed send that is not counted
SendFailureUncounted(m) == m

\* request.go:286-291, 299-304, 307-312, 322-327: a failed ResolveUDPAddr or
\* WriteToUDP is logged and counted, and the loop goes on
SendFailure(m) == AddUint64(m, "Socks5UDPAssociateErrors", 1)

\* request.go:244-331: one turn of the loop after the Read
OutboundProcess ==
    /\ pc = "pumps" /\ ~crashed
    /\ outPc = "process"
    /\ IF outErr # NoErr
       THEN OutboundFail(outErr, 0) /\ UNCHANGED verdicts
       ELSE /\ verdicts' = Append(verdicts, Validate(outBuf, outN))
            /\ IF Validate(outBuf, outN) # "nil"
               THEN OutboundFail(Err(Validate(outBuf, outN), StdErrType), 1)
               ELSE LET f == Forward(outBuf, outN) IN
                    IF f.namePanic
                    THEN outPc' = "panic" /\ UNCHANGED <<udpErr, metrics, udpWrites>>
                    ELSE \/ \* net.ResolveUDPAddr fails for the name
                            /\ BufAt(outBuf, 3) = fqdnAddress
                            /\ metrics' = SendFailure(metrics)
                            /\ outPc' = "read"
                            /\ UNCHANGED <<udpErr, udpWrites>>
                         \/ \* the payload slice is out of range
                            /\ ~f.payload.ok
                            /\ outPc' = "panic"
                            /\ UNCHANGED <<udpErr, metrics, udpWrites>>
                         \/ \* WriteToUDP is called, and succeeds or fails
                            /\ f.payload.ok
                            /\ \E wok \in BOOLEAN :
                                  /\ udpWrites' = Append(udpWrites,
                                        [k |-> Len(tunnelReads), dst |-> f.dst,
                                         payload |-> f.payload.data, ok |-> wok])
                                  /\ metrics' = IF wok
                                     THEN AddUint64(
                                            AddUint64(metrics, "UDPAssociateOutPkts", 1),
                                            "UDPAssociateOutBytes", Len(f.payload.data))
                                     ELSE SendFailure(metrics)
                            /\ outPc' = "read"
                            /\ UNCHANGED udpErr
    /\ UNCHANGED <<req, allowLocal, pc, ctx, resolveCalls, connOut, ret, dials,
                   target, relayLog>>
    /\ UNCHANGED <<udpConn, closeCalls, udpPort, outBuf, outN, outErr,
                   tunnelReads, inPc, inBuf, inN, inErr, udpReads, tunnelWrites,
                   crashed>>
    /\ UNCHANGED <<codecVars, parseVars, proxyVars, turnVars>>

\* request.go:237-238: the deferred udpConn.Close() and wg.Done() run when the
\* goroutine returns or panics; an unrecovered panic then ends the process
OutboundExitClosing(k) ==
    /\ pc = "pumps" /\ ~crashed
    /\ outPc \in {"exit", "panic"}
    /\ udpConn' = IF k > 0 THEN "closed" ELSE udpConn
    /\ closeCalls' = closeCalls + k
    /\ IF outPc = "panic"
       THEN crashed' = TRUE /\ outPc' = "panicked"
       ELSE outPc' = "done" /\ UNCHANGED crashed
    /\ UNCHANGED <<udpPort, udpErr, outBuf, outN, outErr, tunnelReads, udpWrites,
                   inPc, inBuf, inN, inErr, udpReads, tunnelWrites, verdicts>>
    /\ UNCHANGED <<handlerVars, codecVars, parseVars, proxyVars, turnVars>>

\* An outbound pump that returns without closing the socket
OutboundExitNoClose == OutboundExitClosing(0)

\* The outbound pump returns: its deferred functions call Close once
OutboundExit == OutboundExitClosing(1)

----------------------------------------------------------------------------
(* The inbound pump: network to tunnel.                                    *)

\* A failed read that is counted as a UDP-associate error
ReadFailureCounted(m) == AddUint64(m, "Socks5UDPAssociateErrors", 1)

\* request.go:344-347: a failed udpConn.Read is logged and does not contribute
\* to metrics.Socks5UDPAssociateErrors
ReadFailure(m) == m

\* request.go:342-356: n, err = udpConn.Read(buf).  A closed socket fails the
\* read; an open one delivers a datagram or fails.
InboundRead ==
    /\ pc = "pumps" /\ ~crashed
    /\ inPc = "read"
    /\ \/ /\ udpConn = "open"
          /\ Len(udpReads) < MaxInReads
          /\ \E d \in UdpDatagrams :
                /\ inBuf' = ReadInto(inBuf, d)
                /\ inN' = Len(d)
                /\ udpReads' = Append(udpReads, d)
                /\ metrics' = AddUint64(AddUint64(metrics, "UDPAssociateInPkts", 1),
                                        "UDPAssociateInBytes", Len(d))
          /\ inPc' = "write"
          /\ UNCHANGED inErr
       \/ /\ inErr' = Err(IF udpConn = "closed" THEN "udpClosed" ELSE "udpRead",
                          OpErrType)
          /\ inPc' = "load"
          /\ metrics' = ReadFailure(metrics)
          /\ UNCHANGED <<inBuf, inN, udpReads>>
    /\ UNCHANGED <<req, allowLocal, pc, ctx, resolveCalls, connOut, ret, dials,
                   target, relayLog>>
    /\ UNCHANGED <<udpConn, closeCalls, udpPort, udpErr, outPc, outBuf, outN,
                   outErr, tunnelReads, udpWrites, tunnelWrites, verdicts, crashed>>
    /\ UNCHANGED <<codecVars, parseVars, proxyVars, turnVars>>

\* A slice that ends one byte late: buf[:n+1]
InboundSliceOneMore(buf, n) == SliceBuf(buf, 0, n + 1).data

\* The slice the inbound pump hands to conn.Write: buf[:n]
InboundSlice(buf, n) == SliceBuf(buf, 0, n).data

\* request.go:357-366: _, err = conn.Write(buf[:n])
InboundWrite ==
    /\ pc = "pumps" /\ ~crashed
    /\ inPc = "write"
    /\ tunnelWrites' = Append(tunnelWrites,
                              [k |-> Len(udpReads), data |-> InboundSlice(inBuf, inN)])
    /\ \/ inPc' = "read" /\ UNCHANGED inErr
       \/ \E t \in ErrTypes :
             /\ inErr' = Err("tunnelWrite", t)
             /\ inPc' = "load"
    /\ UNCHANGED <<udpConn, closeCalls, udpPort, udpErr, outPc, outBuf, outN,
                   outErr, tunnelReads, udpWrites, inBuf, inN, udpReads, verdicts,
                   crashed>>
    /\ UNCHANGED <<handlerVars, codecVars, parseVars, proxyVars, turnVars>>

\* request.go:349 and 362: if udpErr.Load() == nil; when it is not, the pump
\* returns and its deferred wg.Done() runs
InboundLoad ==
    /\ pc = "pumps" /\ ~crashed
    /\ inPc = "load"
    /\ inPc' = IF udpErr = <<>> THEN "store" ELSE "done"
    /\ UNCHANGED <<udpConn, closeCalls, udpPort, udpErr, outPc, outBuf, outN,
                   outErr, tunnelReads, udpWrites, inBuf, inN, inErr, udpReads,
                   tunnelWrites, verdicts, crashed>>
    /\ UNCHANGED <<handlerVars, codecVars, parseVars, proxyVars, turnVars>>

\* request.go:350 and 363: udpErr.Store(err), then return
InboundStore ==
    /\ pc = "pumps" /\ ~crashed
    /\ inPc = "store"
    /\ IF CanStore(udpErr, inErr)
       THEN udpErr' = <<inErr>> /\ inPc' = "done" /\ UNCHANGED crashed
       ELSE crashed' = TRUE /\ inPc' = "panicked" /\ UNCHANGED udpErr
    /\ UNCHANGED <<udpConn, closeCalls, udpPort, outPc, outBuf, outN, outErr,
                   tunnelReads, udpWrites, inBuf, inN, inErr, udpReads,
                   tunnelWrites, verdicts>>
    /\ UNCHANGED <<handlerVars, codecVars, parseVars, proxyVars, turnVars>>

\* A return that waits for the outbound pump only
HandleAssociateReturnEarly ==
    /\ pc = "pumps" /\ ~crashed
    /\ outPc = "done"
    /\ IF udpErr = <<>>
       THEN crashed' = TRUE /\ UNCHANGED <<pc, ret>>
       ELSE Return(udpErr[1]) /\ UNCHANGED crashed
    /\ UNCHANGED <<req, allowLocal, ctx, resolveCalls, connOut, dials, target,
                   relayLog, metrics>>
    /\ UNCHANGED <<udpConn, closeCalls, udpPort, udpErr, outPc, outBuf, outN,
                   outErr, tunnelReads, udpWrites, inPc, inBuf, inN, inErr,
                   udpReads, tunnelWrites, verdicts>>
    /\ UNCHANGED <<codecVars, parseVars, proxyVars, turnVars>>

\* request.go:370-371: wg.Wait() returns when both pumps are done, and
\* handleAssociate returns udpErr.Load().(error); the assertion panics on an
\* empty box
HandleAssociateReturn ==
    /\ pc = "pumps" /\ ~crashed
    /\ outPc = "done" /\ inPc = "done"
    /\ IF udpErr = <<>>
       THEN crashed' = TRUE /\ UNCHANGED <<pc, ret>>
       ELSE Return(udpErr[1]) /\ UNCHANGED crashed
    /\ UNCHANGED <<req, allowLocal, ctx, resolveCalls, connOut, dials, target,
                   relayLog, metrics>>
    /\ UNCHANGED <<udpConn, closeCalls, udpPort, udpErr, outPc, outBuf, outN,
                   outErr, tunnelReads, udpWrites, inPc, inBuf, inN, inErr,
                   udpReads, tunnelWrites, verdicts>>
    /\ UNCHANGED <<codecVars, parseVars, proxyVars, turnVars>>

----------------------------------------------------------------------------
(* The specification of one request.                                       *)

Next ==
    \/ HandleRequestResolve
    \/ HandleRequestPolicy
    \/ HandleUnsupported
    \/ HandleBind
    \/ HandleConnectDial
    \/ HandleConnectReply
    \/ RelayCopy
    \/ RelayEnd
    \/ HandleAssociateListen
    \/ HandleAssociateReply
    \/ OutboundRead
    \/ OutboundProcess
    \/ OutboundExit
    \/ InboundRead
    \/ InboundWrite
    \/ InboundLoad
    \/ InboundStore
    \/ HandleAssociateReturn

Spec == Init /\ [][Next]_vars

----------------------------------------------------------------------------
(* The codec on its own: sendReply writes a reply for an AddrSpec and       *)
(* readAddrSpec reads back what follows the three header bytes.            *)

\* Names given to the codec: 1, 3, 9 and 255 bytes
CodecNames == {<<97>>, NameXY, NameLocalhost, Fill(98, ByteMod - 1)}

CodecPorts == {0, 80, 255, 256, 40000, PortMod - 1}

\* The addresses given to sendReply: nil, IPv4 in both forms, IPv6, names,
\* a name with its resolved IP, and an AddrSpec that holds nothing
CodecAddrs ==
    {<<>>}
    \cup {<<AddrSpec(<<>>, ip, p)>> :
            ip \in {IPv4Public, <<0, 0, 0, 0>>, IPv4Mapped, IPv6Loopback, IPv6Public},
            p \in CodecPorts}
    \cup {<<AddrSpec(n, <<>>, p)>> : n \in CodecNames, p \in CodecPorts}
    \cup {<<AddrSpec(NameXY, IPv4Public, 80)>>, <<AddrSpec(<<>>, <<>>, 80)>>}

CodecReplies == {successReply, hostUnreachable, commandNotSupported}

HandlerIdle ==
    /\ req = [Command |-> 0, DestAddr |-> AddrSpec(<<>>, <<>>, 0)]
    /\ allowLocal = FALSE
    /\ pc = "idle"
    /\ ctx = "background"
    /\ resolveCalls = 0
    /\ connOut = <<>>
    /\ ret = <<>>
    /\ dials = <<>>
    /\ target = [state |-> "none", local |-> <<>>]
    /\ relayLog = <<>>
    /\ metrics = [c \in Counters |-> 0]

InitCodec ==
    /\ HandlerIdle
    /\ PumpIdle
    /\ cpc = "start"
    /\ cResp \in CodecReplies
    /\ cAddr \in CodecAddrs
    /\ cMsg = [ok |-> FALSE, msg |-> <<>>]
    /\ cRead = [err |-> "nil", d |-> <<>>, used |-> 0]
    /\ ParseIdle
    /\ ProxyIdle
    /\ TurnIdle

\* sendReply(w, cResp, cAddr)
CodecSendReply ==
    /\ cpc = "start"
    /\ cMsg' = ReplyMsg(cResp, cAddr)
    /\ cpc' = "sent"
    /\ UNCHANGED <<cResp, cAddr, cRead>>
    /\ UNCHANGED <<handlerVars, pumpVars, parseVars, proxyVars, turnVars>>

\* readAddrSpec on the bytes written, from the ATYP byte onward
CodecReadBack ==
    /\ cpc = "sent"
    /\ cMsg.ok
    /\ cRead' = readAddrSpec(Slice(cMsg.msg, 3, Len(cMsg.msg)))
    /\ cpc' = "read"
    /\ UNCHANGED <<cResp, cAddr, cMsg>>
    /\ UNCHANGED <<handlerVars, pumpVars, parseVars, proxyVars, turnVars>>

NextCodec == CodecSendReply \/ CodecReadBack

SpecCodec == InitCodec /\ [][NextCodec]_vars

----------------------------------------------------------------------------
(* The parsers on their own: readAddrSpec and NewRequest applied to a      *)
(* stream that ends after the bytes of rStream.                            *)

\* A NewRequest that takes the command from the third header byte
NewRequestCommandFromRSV(s) ==
    LET h == ReadFull(s, 0, 3) IN
    IF ~h.ok THEN [err |-> "getCommandVersion", req |-> <<>>, used |-> h.off]
    ELSE IF h.data[1] # socks5Version
    THEN [err |-> "unsupportedVersion", req |-> <<>>, used |-> h.off]
    ELSE LET a == readAddrSpec(Slice(s, h.off, Len(s))) IN
         IF a.err # "nil" THEN [err |-> a.err, req |-> <<>>, used |-> h.off + a.used]
         ELSE [err  |-> "nil",
               req  |-> <<[Version |-> socks5Version, Command |-> h.data[3],
                           DestAddr |-> a.d[1]]>>,
               used |-> h.off + a.used]

\* NewRequest(conn) on the stream s, request.go:83-108: the error, the
\* *Request returned and the number of bytes taken from the stream
NewRequest(s) ==
    LET h == ReadFull(s, 0, 3) IN
    IF ~h.ok THEN [err |-> "getCommandVersion", req |-> <<>>, used |-> h.off]
    ELSE IF h.data[1] # socks5Version
    THEN [err |-> "unsupportedVersion", req |-> <<>>, used |-> h.off]
    ELSE LET a == readAddrSpec(Slice(s, h.off, Len(s))) IN
         IF a.err # "nil" THEN [err |-> a.err, req |-> <<>>, used |-> h.off + a.used]
         ELSE [err  |-> "nil",
               req  |-> <<[Version |-> socks5Version, Command |-> h.data[2],
                           DestAddr |-> a.d[1]]>>,
               used |-> h.off + a.used]

\* Address parts of a stream: well formed, with bytes after them, cut short,
\* and with an address type outside {1,3,4}
ParseAddrs ==
    { <<ipv4Address>> \o IPv4Public \o <<0, 80>>,
      <<ipv4Address>> \o IPv4Loopback \o <<195, 80, 9, 9>>,
      <<ipv6Address>> \o IPv6Public \o <<1, 187>>,
      <<fqdnAddress, 3>> \o NameXY \o <<1, 187>>,
      <<fqdnAddress, 0, 0, 80>>,
      <<fqdnAddress, 9>> \o NameLocalhost \o <<31, 144, 7>>,
      <<>>,
      <<ipv4Address, 8, 8>>,
      <<ipv4Address, 8, 8, 8, 8, 0>>,
      <<ipv6Address>>,
      <<fqdnAddress>>,
      <<fqdnAddress, 5, 97>>,
      <<0>>,
      <<0, 0, 0, 0, 0, 0, 80>>,
      <<2, 8, 8, 8, 8, 0, 53>>,
      <<5, 1, 0>>,
      <<255, 3, 120>> }

\* The three header bytes of a request: version, command, reserved
ParseHeaders ==
    {<<socks5Version, c, 0>> : c \in {0, 1, 2, 3, 4, 255}}
    \cup { <<socks5Version, 1, 7>>, <<4, 1, 0>>, <<0, 1, 0>>, <<6, 3, 0>> }

\* The streams given to the parsers
ParseStreams ==
    ParseAddrs
    \cup {h \o a : h \in ParseHeaders, a \in ParseAddrs}
    \cup { <<socks5Version>>, <<socks5Version, 1>>, <<4>>, <<4, 1>> }

InitParse ==
    /\ HandlerIdle
    /\ PumpIdle
    /\ CodecIdle
    /\ rStream \in ParseStreams
    /\ rPc = "start"
    /\ rAddr = [err |-> "nil", d |-> <<>>, used |-> 0]
    /\ rReq = [err |-> "nil", req |-> <<>>, used |-> 0]
    /\ ProxyIdle
    /\ TurnIdle

\* readAddrSpec(r) on the stream
ParseAddrSpec ==
    /\ rPc = "start"
    /\ rAddr' = readAddrSpec(rStream)
    /\ rPc' = "readAddrSpec"
    /\ UNCHANGED <<rStream, rReq>>
    /\ UNCHANGED <<handlerVars, pumpVars, codecVars, proxyVars, turnVars>>

\* NewRequest(conn) on the stream
ParseNewRequest ==
    /\ rPc = "start"
    /\ rReq' = NewRequest(rStream)
    /\ rPc' = "NewRequest"
    /\ UNCHANGED <<rStream, rAddr>>
    /\ UNCHANGED <<handlerVars, pumpVars, codecVars, proxyVars, turnVars>>

NextParse == ParseAddrSpec \/ ParseNewRequest

SpecParse == InitParse /\ [][NextParse]_vars

----------------------------------------------------------------------------
(* proxySocks5ConnReq: the connection request is read from the client and  *)
(* written to the server, the response is read from the server and written *)
(* to the client, with the port rewritten for a UDP association.           *)

\* request.go:433, 470: the length of make([]byte, reqFQDNLen[0]+2), an
\* addition of bytes
AddrBufLen(l) == AddU8(l, 2)

\* request.go:418-444: the connection request read from stream s: the error,
\* connReq and the number of bytes taken
ReadConnReq(s) ==
    LET h == ReadFull(s, 0, 4) IN
    IF ~h.ok THEN [err |-> "getConnReq", msg |-> <<>>, used |-> h.off]
    ELSE IF h.data[4] \in {ipv4Address, ipv6Address} THEN
        LET a == ReadFull(s, h.off, IF h.data[4] = ipv4Address THEN 6 ELSE 18) IN
        IF ~a.ok THEN [err |-> "getDstAddr", msg |-> <<>>, used |-> a.off]
        ELSE [err |-> "nil", msg |-> h.data \o a.data, used |-> a.off]
    ELSE IF h.data[4] = fqdnAddress THEN
        LET l == ReadFull(s, h.off, 1) IN
        IF ~l.ok THEN [err |-> "getFQDNLen", msg |-> <<>>, used |-> l.off]
        ELSE LET a == ReadFull(s, l.off, AddrBufLen(l.data[1])) IN
             IF ~a.ok THEN [err |-> "getDstAddr", msg |-> <<>>, used |-> a.off]
             ELSE [err |-> "nil", msg |-> h.data \o l.data \o a.data, used |-> a.off]
    ELSE [err |-> "unsupportedAddrType", msg |-> <<>>, used |-> h.off]

\* request.go:452-479: the connection response read from stream s
ReadConnResp(s) ==
    LET h == ReadFull(s, 0, 4) IN
    IF ~h.ok THEN [err |-> "readConnResp", msg |-> <<>>, used |-> h.off]
    ELSE IF h.data[4] \in {ipv4Address, ipv6Address} THEN
        LET a == ReadFull(s, h.off, IF h.data[4] = ipv4Address THEN 6 ELSE 18) IN
        IF ~a.ok THEN [err |-> "getBindAddr", msg |-> <<>>, used |-> a.off]
        ELSE [err |-> "nil", msg |-> h.data \o a.data, used |-> a.off]
    ELSE IF h.data[4] = fqdnAddress THEN
        LET l == ReadFull(s, h.off, 1) IN
        IF ~l.ok THEN [err |-> "getFQDNLen", msg |-> <<>>, used |-> l.off]
        ELSE LET a == ReadFull(s, l.off, AddrBufLen(l.data[1])) IN
             IF ~a.ok THEN [err |-> "getBindAddr", msg |-> <<>>, used |-> a.off]
             ELSE [err |-> "nil", msg |-> h.data \o l.data \o a.data, used |-> a.off]
    ELSE [err |-> "unsupportedAddrType", msg |-> <<>>, used |-> h.off]

\* request.go:503-505: connResp[lenResp-2] = byte(udpPort >> 8) and
\* connResp[lenResp-1] = byte(udpPort)
RewritePort(resp, port) ==
    SubSeq(resp, 1, Len(resp) - 2) \o <<(port \div ByteMod) % ByteMod, port % ByteMod>>

\* Names of 253, 254 and 255 bytes
Name253 == Fill(110, 253)
Name254 == Fill(110, 254)
Name255 == Fill(110, ByteMod - 1)

\* What follows the first three bytes of a request or a response: address
\* type, address and port
WireAddrs ==
    { <<ipv4Address>> \o IPv4Public \o <<0, 80>>,
      <<ipv6Address>> \o IPv6Public \o <<1, 187>>,
      <<fqdnAddress, 0, 0, 80>>,
      <<fqdnAddress, 3>> \o NameXY \o <<1, 187>>,
      <<fqdnAddress, 253>> \o Name253 \o <<1, 187>>,
      <<fqdnAddress, 254>> \o Name254 \o <<1, 187>>,
      <<fqdnAddress, 255>> \o Name255 \o <<1, 187>> }

\* What the client sends: whole requests, a request followed by more bytes,
\* requests cut short (one after the length byte of a name of 254 bytes) and
\* a request with address type 2
DownStreams ==
    {<<socks5Version, c, 0>> \o a : c \in {ConnectCommand, AssociateCommand}, a \in WireAddrs}
    \cup { <<socks5Version, BindCommand, 0, ipv4Address>> \o IPv4Public \o <<0, 80, 22, 3>>,
           <<socks5Version, ConnectCommand>>,
           <<socks5Version, ConnectCommand, 0, fqdnAddress>>,
           <<socks5Version, ConnectCommand, 0, fqdnAddress, 254>>,
           <<socks5Version, ConnectCommand, 0, ipv4Address, 8, 8>>,
           <<socks5Version, ConnectCommand, 0, 2, 8, 8, 8, 8, 0, 53>> }

\* What the server sends: whole responses, responses cut short (one after
\* the length byte of a name of 254 bytes) and a response with address type 0
UpStreams ==
    {<<socks5Version, successReply, 0>> \o a : a \in WireAddrs}
    \cup { <<socks5Version, successReply, 0, ipv4Address, 0, 0, 0, 0, 156, 64>>,
           <<socks5Version, hostUnreachable, 0, ipv4Address, 0, 0, 0, 0, 0, 0>>,
           <<socks5Version, successReply, 0>>,
           <<socks5Version, successReply, 0, fqdnAddress>>,
           <<socks5Version, successReply, 0, fqdnAddress, 254>>,
           <<socks5Version, successReply, 0, ipv6Address, 0, 0, 0, 0, 0, 0>>,
           <<socks5Version, successReply, 0, 0, 0, 0, 0, 0, 0, 0>> }

\* Ports the operating system can assign to the forwarder's UDP socket
ProxyUdpPorts == {40001, 255}

InitProxy ==
    /\ HandlerIdle
    /\ PumpIdle
    /\ CodecIdle
    /\ ParseIdle
    /\ TurnIdle
    /\ down \in DownStreams
    /\ up \in UpStreams
    /\ fPc = "request"
    /\ downUsed = 0
    /\ upUsed = 0
    /\ toUp = <<>>
    /\ toDown = <<>>
    /\ fCmd = 0
    /\ connResp = <<>>
    /\ fUdp = [state |-> "none", port |-> 0]
    /\ fRet = <<>>

\* proxySocks5ConnReq returns (udpConn, err); udp tells whether udpConn is
\* non-nil
ProxyReturn(udp, err) == fRet' = <<[udp |-> udp, err |-> err]>> /\ fPc' = "returned"

\* request.go:418-449: read the connection request and send it to the server
ProxyConnRequest ==
    /\ fPc = "request"
    /\ LET r == ReadConnReq(down) IN
       /\ downUsed' = r.used
       /\ IF r.err # "nil"
          THEN /\ ProxyReturn(FALSE, r.err)
               /\ UNCHANGED <<toUp, fCmd>>
          ELSE /\ fCmd' = r.msg[2]
               /\ toUp' = Append(toUp, r.msg)
               /\ \/ fPc' = "response" /\ UNCHANGED fRet
                  \/ ProxyReturn(FALSE, "writeConnReq")
    /\ UNCHANGED <<down, up, upUsed, toDown, connResp, fUdp>>
    /\ UNCHANGED <<handlerVars, pumpVars, codecVars, parseVars, turnVars>>

\* request.go:451-479: get the server's connection response
ProxyConnResponse ==
    /\ fPc = "response"
    /\ LET p == ReadConnResp(up) IN
       /\ upUsed' = p.used
       /\ IF p.err # "nil"
          THEN ProxyReturn(FALSE, p.err) /\ UNCHANGED connResp
          ELSE /\ connResp' = p.msg
               /\ fPc' = IF fCmd = AssociateCommand THEN "listen" ELSE "reply"
               /\ UNCHANGED fRet
    /\ UNCHANGED <<down, up, downUsed, toUp, toDown, fCmd, fUdp>>
    /\ UNCHANGED <<handlerVars, pumpVars, codecVars, parseVars, turnVars>>

\* request.go:481-506: for ASSOCIATE create a UDP listener on a random port
\* and rewrite the response.  The port is parsed from LocalAddr().String(),
\* which is host:port with a decimal port, so SplitHostPort and Atoi do not
\* fail.
ProxyConnListen ==
    /\ fPc = "listen"
    /\ \/ /\ \E k \in {"resolveUDPAddr", "listenUDP"} : ProxyReturn(FALSE, k)
          /\ UNCHANGED <<fUdp, connResp>>
       \/ \E port \in ProxyUdpPorts :
          /\ fUdp' = [state |-> "open", port |-> port]
          /\ connResp' = RewritePort(connResp, port)
          /\ fPc' = "reply"
          /\ UNCHANGED fRet
    /\ UNCHANGED <<down, up, downUsed, upUsed, toUp, toDown, fCmd>>
    /\ UNCHANGED <<handlerVars, pumpVars, codecVars, parseVars, turnVars>>

\* request.go:508-512: write the response to the client and return
ProxyConnReply ==
    /\ fPc = "reply"
    /\ toDown' = Append(toDown, connResp)
    /\ \/ ProxyReturn(fUdp.state # "none", "nil")
       \/ ProxyReturn(FALSE, "writeConnResp")
    /\ UNCHANGED <<down, up, downUsed, upUsed, toUp, fCmd, connResp, fUdp>>
    /\ UNCHANGED <<handlerVars, pumpVars, codecVars, parseVars, turnVars>>

NextProxy ==
    \/ ProxyConnRequest
    \/ ProxyConnResponse
    \/ ProxyConnListen
    \/ ProxyConnReply

SpecProxy == InitProxy /\ [][NextProxy]_vars

----------------------------------------------------------------------------
(* proxySocks5AuthReq: the authentication request is read from the client  *)
(* and written to the server, the two bytes of the response are read from  *)
(* the server and written to the client.                                   *)

\* An authentication request forwarded without its count byte
ReadAuthReqDropsCount(s) ==
    LET v == ReadFull(s, 0, 1) IN
    IF ~v.ok THEN [err |-> "getVersion", msg |-> <<>>, used |-> v.off]
    ELSE IF v.data[1] # socks5Version
    THEN [err |-> "unsupportedVersion", msg |-> <<>>, used |-> v.off]
    ELSE LET c == ReadFull(s, v.off, 1) IN
         IF ~c.ok THEN [err |-> "getNMethods", msg |-> <<>>, used |-> c.off]
         ELSE LET m == ReadFull(s, c.off, c.data[1]) IN
              IF ~m.ok THEN [err |-> "getMethods", msg |-> <<>>, used |-> m.off]
              ELSE [err |-> "nil", msg |-> v.data \o m.data, used |-> m.off]

\* request.go:378-396: the authentication request read from stream s: the
\* error, authReq and the number of bytes taken
ReadAuthReq(s) ==
    LET v == ReadFull(s, 0, 1) IN
    IF ~v.ok THEN [err |-> "getVersion", msg |-> <<>>, used |-> v.off]
    ELSE IF v.data[1] # socks5Version
    THEN [err |-> "unsupportedVersion", msg |-> <<>>, used |-> v.off]
    ELSE LET c == ReadFull(s, v.off, 1) IN
         IF ~c.ok THEN [err |-> "getNMethods", msg |-> <<>>, used |-> c.off]
         ELSE LET m == ReadFull(s, c.off, c.data[1]) IN
              IF ~m.ok THEN [err |-> "getMethods", msg |-> <<>>, used |-> m.off]
              ELSE [err |-> "nil", msg |-> v.data \o c.data \o m.data, used |-> m.off]

\* What the client sends: requests with 0, 1, 2 and 255 methods, one followed
\* by more bytes, requests cut short and one of version 4
AuthDownStreams ==
    { <<socks5Version, 0>>,
      <<socks5Version, 1, 0>>,
      <<socks5Version, 2, 0, 2>>,
      <<socks5Version, ByteMod - 1>> \o [i \in 1..(ByteMod - 1) |-> i],
      <<socks5Version, 1, 2, socks5Version, ConnectCommand, 0>>,
      <<>>,
      <<socks5Version>>,
      <<socks5Version, 3, 0, 1>>,
      <<4, 1, 0>> }

\* What the server sends: a method selection, "no acceptable method", two
\* bytes that are no SOCKS5 selection, a response followed by more bytes and
\* responses cut short
AuthUpStreams ==
    { <<socks5Version, 0>>,
      <<socks5Version, 255>>,
      <<4, 7>>,
      <<socks5Version, 2, 1, 0>>,
      <<socks5Version>>,
      <<>> }

InitAuth ==
    /\ HandlerIdle
    /\ PumpIdle
    /\ CodecIdle
    /\ ParseIdle
    /\ TurnIdle
    /\ down \in AuthDownStreams
    /\ up \in AuthUpStreams
    /\ fPc = "auth"
    /\ downUsed = 0
    /\ upUsed = 0
    /\ toUp = <<>>
    /\ toDown = <<>>
    /\ fCmd = 0
    /\ connResp = <<>>
    /\ fUdp = [state |-> "none", port |-> 0]
    /\ fRet = <<>>

\* proxySocks5AuthReq returns err
AuthReturn(err) == fRet' = <<[udp |-> FALSE, err |-> err]>> /\ fPc' = "returned"

\* request.go:378-399: send the version and authentication methods to the
\* server
ProxyAuthRequest ==
    /\ fPc = "auth"
    /\ LET r == ReadAuthReq(down) IN
       /\ downUsed' = r.used
       /\ IF r.err # "nil"
          THEN AuthReturn(r.err) /\ UNCHANGED toUp
          ELSE /\ toUp' = Append(toUp, r.msg)
               /\ \/ fPc' = "authResp" /\ UNCHANGED fRet
                  \/ AuthReturn("writeAuthReq")
    /\ UNCHANGED <<down, up, upUsed, toDown, fCmd, connResp, fUdp>>
    /\ UNCHANGED <<handlerVars, pumpVars, codecVars, parseVars, turnVars>>

\* request.go:401-405: get the server's authentication response
ProxyAuthResponse ==
    /\ fPc = "authResp"
    /\ LET p == ReadFull(up, 0, 2) IN
       /\ upUsed' = p.off
       /\ IF ~p.ok
          THEN AuthReturn("readAuthResp") /\ UNCHANGED connResp
          ELSE connResp' = p.data /\ fPc' = "authReply" /\ UNCHANGED fRet
    /\ UNCHANGED <<down, up, downUsed, toUp, toDown, fCmd, fUdp>>
    /\ UNCHANGED <<handlerVars, pumpVars, codecVars, parseVars, turnVars>>

\* request.go:406-410: write the response to the client and return
ProxyAuthReply ==
    /\ fPc = "authReply"
    /\ toDown' = Append(toDown, connResp)
    /\ \/ AuthReturn("nil")
       \/ AuthReturn("writeAuthResp")
    /\ UNCHANGED <<down, up, downUsed, upUsed, toUp, fCmd, connResp, fUdp>>
    /\ UNCHANGED <<handlerVars, pumpVars, codecVars, parseVars, turnVars>>

NextAuth ==
    \/ ProxyAuthRequest
    \/ ProxyAuthResponse
    \/ ProxyAuthReply

SpecAuth == InitAuth /\ [][NextAuth]_vars

----------------------------------------------------------------------------
(* One turn of the outbound pump's loop on its own: the validation and the *)
(* switch on addrType applied to the buffer after one conn.Read, for       *)
(* datagrams of every size the buffer can take and names of every length.  *)

\* Lengths of the names carried by the datagrams
TurnNameLens == {0, 3, 248, 249, 250, 251, 255}

\* The first bytes of a UDP request to the name of l bytes 'a', port 443,
\* with payload aa cc
TurnName(l) ==
    <<0, 0, 0, fqdnAddress, l>> \o Fill(97, l) \o <<1, 187>> \o <<170, 204>>

\* The first bytes of the datagrams: the bytes after them are zero
TurnHeads ==
    { TurnName(l) : l \in TurnNameLens }
    \cup { HdrV4 \o <<170, 204>>,
           HdrV6 \o <<238, 204>>,
           <<0, 1, 0, ipv4Address, 8, 8, 8, 8, 0, 53, 170>>,
           <<0, 0, 1, ipv4Address, 8, 8, 8, 8, 0, 53, 170>>,
           <<0, 0, 0, 2, 8, 8, 8, 8, 0, 53, 170>> }

\* The sizes n of the datagrams with first bytes h: short ones, the sizes
\* around the length guards, and the largest the buffer takes
TurnLens(h) ==
    {1, 6, 7, 10, 11, 22, 23, BufSize - 1, BufSize}
    \cup {Len(h) - 3, Len(h) - 2, Len(h) - 1, Len(h)}

\* The written prefix of a fresh buf after a Read of the n-byte datagram that
\* starts with h and goes on with zeros
TurnRead(h, n) == SubSeq(h, 1, IF n < Len(h) THEN n ELSE Len(h))

InitTurn ==
    /\ HandlerIdle
    /\ PumpIdle
    /\ CodecIdle
    /\ ParseIdle
    /\ ProxyIdle
    /\ \E h \in TurnHeads : \E n \in TurnLens(h) :
          /\ turnBuf = TurnRead(h, n)
          /\ turnN = n
    /\ turnPc = "read"
    /\ turnOut = <<>>

\* request.go:249-276: the validation of the datagram
TurnValidate ==
    /\ turnPc = "read"
    /\ turnOut' = <<[verdict |-> Validate(turnBuf, turnN), fwd |-> <<>>]>>
    /\ turnPc' = IF Validate(turnBuf, turnN) = "nil" THEN "forward" ELSE "rejected"
    /\ UNCHANGED <<turnBuf, turnN>>
    /\ UNCHANGED <<handlerVars, pumpVars, codecVars, parseVars, proxyVars>>

\* request.go:279-331: the switch on addrType: the slices are taken, which
\* panics when one is out of range, and the payload goes to WriteToUDP
TurnForward ==
    /\ turnPc = "forward"
    /\ LET f == Forward(turnBuf, turnN) IN
       /\ turnOut' = <<[verdict |-> "nil", fwd |-> <<f>>]>>
       /\ turnPc' = IF f.namePanic \/ ~f.payload.ok THEN "panic" ELSE "sent"
    /\ UNCHANGED <<turnBuf, turnN>>
    /\ UNCHANGED <<handlerVars, pumpVars, codecVars, parseVars, proxyVars>>

NextTurn == TurnValidate \/ TurnForward

SpecTurn == InitTurn /\ [][NextTurn]_vars

----------------------------------------------------------------------------
(* Properties of handleRequest.                                            *)

\* No dial was made, no UDP socket created and nothing relayed
NoRelayIO ==
    /\ dials = <<>>
    /\ target.state = "none"
    /\ udpConn = "none"
    /\ relayLog = <<>>
    /\ tunnelReads = <<>> /\ udpWrites = <<>>
    /\ udpReads = <<>> /\ tunnelWrites = <<>>

\* The resolver failed for this request
ResolveFailed == metrics["Socks5DNSResolveErrors"] > 0

\* The localhost policy denies the request
PolicyDenied == ~ResolveFailed /\ ~allowLocal /\ isLocalhostDest(req)

\* The code of reply message m
ReplyCode(m) == m[2]

\* C1, as stated: every BIND request, whatever its destination, the resolver
\* outcome and AllowLocalDestination, gets exactly one reply, with code
\* commandNotSupported, and no dial, UDP socket or relay I/O follows.
C1_BindAlwaysRefused ==
    (req.Command = BindCommand /\ pc = "returned")
        => /\ Len(connOut) = 1
           /\ ReplyCode(connOut[1]) = 7
           /\ NoRelayIO

\* C1, amended: a BIND request never causes a dial, a UDP socket or relay I/O
\* and gets at most one reply; when the resolver did not fail and the
\* localhost policy admits the destination it gets exactly one reply, with
\* code commandNotSupported; when the resolver failed it gets exactly one
\* reply, with code hostUnreachable; when the policy denies it, none.
C1_BindRefusedAfterChecks ==
    req.Command = BindCommand
        => /\ NoRelayIO
           /\ Len(connOut) <= 1
           /\ pc = "returned" =>
                 IF ResolveFailed
                 THEN Len(connOut) = 1 /\ ReplyCode(connOut[1]) = 4
                 ELSE IF PolicyDenied
                 THEN connOut = <<>>
                 ELSE Len(connOut) = 1 /\ ReplyCode(connOut[1]) = 7

\* A BIND request for a name that resolved and was admitted has been answered
C1_Witness ==
    /\ req.Command = BindCommand
    /\ pc = "returned"
    /\ req.DestAddr.FQDN # <<>>
    /\ ~ResolveFailed /\ ~PolicyDenied
    /\ Len(connOut) = 1
    /\ ret = <<NoErr>>

----------------------------------------------------------------------------
(* Properties of the codec.                                                *)

\* The length of the address body that the ATYP byte of message m dictates
BodyLen(m) ==
    IF m[4] = 1 THEN 4 ELSE IF m[4] = 4 THEN 16 ELSE 1 + m[5]

\* m is a complete reply with status code resp
WellFormedReply(m, resp) ==
    /\ Len(m) >= 6
    /\ \A i \in 1..Len(m) : m[i] \in Byte
    /\ m[1] = 5
    /\ m[2] = resp
    /\ m[3] = 0
    /\ m[4] \in {1, 3, 4}
    /\ Len(m) = 4 + BodyLen(m) + 2

\* C3: every message sendReply writes is complete and well formed: VER=5, the
\* status code, RSV=0, ATYP in {1,3,4}, an address body of the length the ATYP
\* dictates and two port bytes; for a nil address it is ATYP=1, four zero
\* bytes and port 0.
C3_ReplyWellFormed ==
    (cpc # "start" /\ cMsg.ok)
        => /\ WellFormedReply(cMsg.msg, cResp)
           /\ cAddr = <<>> => cMsg.msg = <<5, cResp, 0, 1, 0, 0, 0, 0, 0, 0>>

\* A reply for an IPv4 address held in 16 bytes has been written
C3_Witness ==
    /\ cpc = "sent"
    /\ cMsg.ok
    /\ cAddr # <<>>
    /\ cAddr[1].IP = IPv4Mapped
    /\ cAddr[1].Port = 40000

\* An AddrSpec that is an IPv4 address, an IPv6 address or a name of at most
\* 255 bytes, with a port of 16 bits
ValidAddrSpec(a) ==
    /\ \/ a.FQDN # <<>> /\ Len(a.FQDN) <= 255 /\ a.IP = <<>>
       \/ a.FQDN = <<>> /\ Len(a.IP) \in {4, 16}
    /\ a.Port \in 0..65535

Family(a) ==
    IF a.FQDN # <<>> THEN "fqdn" ELSE IF To4(a.IP) # <<>> THEN "ipv4" ELSE "ipv6"

\* The bytes of the address: the name, the 4 bytes of an IPv4 address, the 16
\* bytes of an IPv6 address
AddrBytes(a) ==
    IF a.FQDN # <<>> THEN a.FQDN ELSE IF To4(a.IP) # <<>> THEN To4(a.IP) ELSE a.IP

\* C4: for an AddrSpec that is an IPv4 address, an IPv6 address or a name of at
\* most 255 bytes, with any port in 0..65535, readAddrSpec on the bytes that
\* sendReply wrote from the ATYP byte onward succeeds, takes all of them and
\* returns an AddrSpec of the same family, the same address bytes or name and
\* the same port (an IPv4 address comes back in its 4-byte form).
C4_RoundTrip ==
    (cpc = "read" /\ cAddr # <<>> /\ ValidAddrSpec(cAddr[1]))
        => /\ cRead.err = "nil"
           /\ cRead.used = Len(cMsg.msg) - 3
           /\ Len(cRead.d) = 1
           /\ Family(cRead.d[1]) = Family(cAddr[1])
           /\ AddrBytes(cRead.d[1]) = AddrBytes(cAddr[1])
           /\ Family(cAddr[1]) = "ipv4" => cRead.d[1].IP = To4(cAddr[1].IP)
           /\ Family(cAddr[1]) = "ipv6" => cRead.d[1].IP = cAddr[1].IP
           /\ cRead.d[1].Port = cAddr[1].Port

\* A name of 255 bytes with port 65535 has been written and read back
C4_Witness ==
    /\ cpc = "read"
    /\ cAddr # <<>>
    /\ Len(cAddr[1].FQDN) = 255
    /\ cAddr[1].Port = 65535
    /\ cRead.err = "nil"

----------------------------------------------------------------------------
(* The same request under the scheduler's fairness: a goroutine that can   *)
(* take a step takes it.  Reads that wait for the peer (conn.Read on the   *)
(* tunnel, udpConn.Read on an open socket) may wait forever; a read on a   *)
(* closed socket returns.                                                  *)

InboundReadClosed == InboundRead /\ udpConn = "closed"

FairSpec ==
    /\ Spec
    /\ WF_vars(HandleRequestResolve)
    /\ WF_vars(HandleRequestPolicy)
    /\ WF_vars(HandleUnsupported)
    /\ WF_vars(HandleBind)
    /\ WF_vars(HandleConnectDial)
    /\ WF_vars(HandleConnectReply)
    /\ WF_vars(HandleAssociateListen)
    /\ WF_vars(HandleAssociateReply)
    /\ WF_vars(OutboundProcess)
    /\ WF_vars(OutboundExit)
    /\ WF_vars(InboundReadClosed)
    /\ WF_vars(InboundWrite)
    /\ WF_vars(InboundLoad)
    /\ WF_vars(InboundStore)
    /\ WF_vars(HandleAssociateReturn)

----------------------------------------------------------------------------
(* Properties of the pumps.                                                *)

\* The length of the header of datagram d: 10 for IPv4, 22 for IPv6, 7 plus
\* the name length for a name
HeaderLen(d) ==
    IF d[4] = 1 THEN 10 ELSE IF d[4] = 4 THEN 22 ELSE 7 + d[5]

\* The destination embedded in the header of datagram d
EmbeddedDst(d) ==
    IF d[4] = 1 THEN [host |-> <<"ip", SubSeq(d, 5, 8)>>, port |-> d[9] * 256 + d[10]]
    ELSE IF d[4] = 4
    THEN [host |-> <<"ip", SubSeq(d, 5, 20)>>, port |-> d[21] * 256 + d[22]]
    ELSE [host |-> <<"name", SubSeq(d, 6, 5 + d[5])>>,
          port |-> d[6 + d[5]] * 256 + d[7 + d[5]]]

\* The UDP writes issued for the k-th datagram read from the tunnel
WritesFor(k) == {i \in 1..Len(udpWrites) : udpWrites[i].k = k}

\* C5: for each datagram read from the tunnel that passes header validation,
\* the outbound pump issues exactly one UDP write, to the destination embedded
\* in the header, whose payload is exactly the bytes that follow the header
\* (a name that does not resolve has no destination: for a name the statement
\* asks for at most one write).
C5_PayloadUnmodified ==
    \A k \in 1..Len(verdicts) :
        verdicts[k] = "nil" =>
            LET d == tunnelReads[k] IN
            /\ Cardinality(WritesFor(k)) <= 1
            /\ d[4] \in {1, 4} => Cardinality(WritesFor(k)) = 1
            /\ \A i \in WritesFor(k) :
                  /\ udpWrites[i].dst = EmbeddedDst(d)
                  /\ udpWrites[i].payload = SubSeq(d, HeaderLen(d) + 1, Len(d))

\* C6: each datagram the inbound pump reads from the UDP socket is written to
\* the tunnel exactly once, with the same bytes and length, nothing in front.
C6_InboundVerbatim ==
    /\ Len(tunnelWrites) = Len(udpReads) - (IF inPc = "write" THEN 1 ELSE 0)
    /\ \A i \in 1..Len(tunnelWrites) :
          /\ tunnelWrites[i].k = i
          /\ tunnelWrites[i].data = udpReads[i]

\* The inbound pump has written a datagram to the tunnel and moved on
C6_Witness ==
    /\ Len(udpReads) >= 1
    /\ Len(tunnelWrites) = Len(udpReads)
    /\ inPc \in {"read", "done"}

\* Datagram d has a nonzero reserved byte, a nonzero FRAG byte or an ATYP
\* outside {1,3,4}
BadHeader(d) ==
    \/ Len(d) >= 1 /\ d[1] # 0
    \/ Len(d) >= 2 /\ d[2] # 0
    \/ Len(d) >= 3 /\ d[3] # 0
    \/ Len(d) >= 4 /\ d[4] \notin {1, 3, 4}

\* The outbound pump deals with a datagram whose header is bad
C7_Step ==
    (/\ outPc = "process"
     /\ outErr = NoErr
     /\ BadHeader(tunnelReads[Len(tunnelReads)])
     /\ outPc' # "process")
        => /\ udpWrites' = udpWrites
           /\ metrics'["Socks5UDPAssociateErrors"] = metrics["Socks5UDPAssociateErrors"] + 1
           /\ outPc' \in {"exit", "panic"}

\* C7: for every datagram with a nonzero reserved byte, a nonzero FRAG byte or
\* an ATYP outside {1,3,4}: no UDP write is issued for it, the UDP-associate
\* error counter increases by exactly 1, the outbound pump terminates, and
\* the UDP socket is closed.
C7_MalformedRejected ==
    /\ [][C7_Step]_vars
    /\ [](outPc \in {"done", "panicked"} => udpConn = "closed")

\* The length test of the claim on datagram d
Insufficient(d) ==
    \/ Len(d) <= 6
    \/ d[4] = 1 /\ Len(d) <= 10
    \/ d[4] = 4 /\ Len(d) <= 22
    \/ d[4] = 3 /\ Len(d) <= 6 + d[5]

\* C8, as stated: a datagram is rejected as insufficient exactly when n <= 6,
\* or ATYP=1 and n <= 10, or ATYP=4 and n <= 22, or ATYP=3 and n <= 6 + the
\* declared name length; every datagram that passes has its whole header
\* inside the n bytes read.
C8_LengthGuard ==
    \A k \in 1..Len(verdicts) :
        /\ verdicts[k] = "ErrNoEnoughData" <=> Insufficient(tunnelReads[k])
        /\ verdicts[k] = "nil" => HeaderLen(tunnelReads[k]) <= Len(tunnelReads[k])

\* C8, amended: a datagram is rejected as insufficient exactly when n <= 6,
\* or its reserved and FRAG bytes are zero and (ATYP=1 and n <= 10, or ATYP=4
\* and n <= 22, or ATYP=3 and n <= 6 + the declared name length); a datagram
\* of more than 6 bytes with a nonzero reserved or FRAG byte is rejected for
\* that byte, whatever its length.  Every datagram that passes has its whole
\* header inside the n bytes read.
C8_LengthGuardAfterHeader ==
    \A k \in 1..Len(verdicts) :
        LET d == tunnelReads[k] IN
        /\ verdicts[k] = "ErrNoEnoughData"
              <=> \/ Len(d) <= 6
                  \/ d[1] = 0 /\ d[2] = 0 /\ d[3] = 0 /\ Insufficient(d)
        /\ (Len(d) > 6 /\ (d[1] # 0 \/ d[2] # 0 \/ d[3] # 0))
              => verdicts[k] \in {"ErrInvalidArgument", "ErrUnsupported"}
        /\ verdicts[k] = "nil" => HeaderLen(d) <= Len(d)

\* A name datagram of 6 + name length bytes has been rejected as insufficient
\* and one of 7 + name length bytes before it has passed
C8_Witness ==
    /\ Len(verdicts) = 2
    /\ verdicts[1] = "nil"
    /\ tunnelReads[1][4] = 3
    /\ Len(tunnelReads[1]) = 7 + tunnelReads[1][5]
    /\ verdicts[2] = "ErrNoEnoughData"
    /\ Len(tunnelReads[2]) > 6
    /\ tunnelReads[2][4] = 3
    /\ Len(tunnelReads[2]) = 6 + tunnelReads[2][5]

\* A pump has ended
OutboundEnded == outPc \in {"done", "panicked"}
InboundEnded == inPc \in {"done", "panicked"}

\* C9: whenever either pump terminates, the UDP socket is closed as a
\* consequence, the other pump terminates and handleAssociate returns (a
\* process ended by a panic counts as returned).
C9_PumpsEndTogether ==
    (OutboundEnded \/ InboundEnded)
        ~> (udpConn = "closed" /\ (crashed \/ (OutboundEnded /\ InboundEnded
                                               /\ pc = "returned")))

\* C10: the error handleAssociate returns is the first one stored by either
\* pump: an error stored in the box is never replaced.
C10_FirstErrorWins == [][udpErr # <<>> => udpErr' = udpErr]_vars

\* C11: across every interleaving of the two pumps of one session, Close is
\* called on the UDP socket at most once, and exactly once by the time
\* handleAssociate returns after it started the pumps.
C11_CloseOnce ==
    /\ closeCalls <= 1
    /\ (pc = "returned" /\ outPc = "done") => closeCalls = 1
    /\ closeCalls = 1 => udpConn = "closed"

\* handleAssociate has returned after both pumps ended, the inbound one having
\* stored the session's error
C11_Witness ==
    /\ pc = "returned"
    /\ outPc = "done" /\ inPc = "done"
    /\ closeCalls = 1
    /\ ret[1].kind \in {"udpClosed", "udpRead", "tunnelWrite"}

----------------------------------------------------------------------------
(* Properties of handleConnect.                                            *)

\* The reply with code c and the all-zero IPv4 address and port
ZeroReply(c) == <<5, c, 0, 1, 0, 0, 0, 0, 0, 0>>

\* The counters when only counter c has been incremented, once
OnlyCounter(c) == [x \in Counters |-> IF x = c THEN 1 ELSE 0]

\* The dial of a CONNECT request failed
DialFailed == Len(dials) = 1 /\ dials[1].err # <<>>

\* C12: when the TCP dial fails, handleConnect writes exactly one reply, with
\* code connectionRefused (5) if the error text contains "refused", otherwise
\* networkUnreachable (3) if it contains "network is unreachable", otherwise
\* hostUnreachable (4); it increments exactly the one matching counter by 1,
\* starts no relay and returns an error.
C12_DialFailureReply ==
    (req.Command = ConnectCommand /\ DialFailed)
        => LET e == dials[1].err[1] IN
           /\ pc = "returned"
           /\ ret[1] # NoErr
           /\ relayLog = <<>> /\ target.state = "none" /\ udpConn = "none"
           /\ IF e.refused
              THEN /\ connOut = <<ZeroReply(5)>>
                   /\ metrics = OnlyCounter("Socks5ConnectionRefusedErrors")
              ELSE IF e.netUnreachable
              THEN /\ connOut = <<ZeroReply(3)>>
                   /\ metrics = OnlyCounter("Socks5NetworkUnreachableErrors")
              ELSE /\ connOut = <<ZeroReply(4)>>
                   /\ metrics = OnlyCounter("Socks5HostUnreachableErrors")

\* A dial failed with a text that contains both "refused" and "network is
\* unreachable", and handleConnect has returned
C12_Witness ==
    /\ req.Command = ConnectCommand
    /\ DialFailed
    /\ dials[1].err[1].refused /\ dials[1].err[1].netUnreachable
    /\ pc = "returned"

\* The success reply that carries address a: IPv4 in 4 bytes, IPv6 in 16
SuccessReplyFor(a) ==
    (IF To4(a.IP) # <<>> THEN <<5, 0, 0, 1>> \o To4(a.IP) ELSE <<5, 0, 0, 4>> \o a.IP)
        \o <<a.Port \div 256, a.Port % 256>>

\* The dial of a CONNECT request succeeded
DialSucceeded == Len(dials) = 1 /\ dials[1].err = <<>>

\* C13: when the TCP dial succeeds, handleConnect writes exactly one reply,
\* with REP=0 and the local address and port of the dialed connection, before
\* any relayed byte in either direction; if writing the reply fails, no relay
\* starts.
C13_SuccessReplyBeforeRelay ==
    (req.Command = ConnectCommand /\ DialSucceeded)
        => /\ pc \in {"connectReply", "relay", "returned"}
           /\ pc = "connectReply" => connOut = <<>> /\ relayLog = <<>>
           /\ pc # "connectReply" => connOut = <<SuccessReplyFor(target.local[1])>>
           /\ (pc = "returned" /\ ret[1].kind = "sendReply") => relayLog = <<>>

\* Bytes have been relayed for a connection whose local address is an IPv4
\* address in its 16-byte form
C13_Witness ==
    /\ req.Command = ConnectCommand
    /\ DialSucceeded
    /\ pc = "relay"
    /\ relayLog # <<>>
    /\ Len(target.local[1].IP) = 16 /\ To4(target.local[1].IP) # <<>>

----------------------------------------------------------------------------
(* Properties of the checks handleRequest makes before it dispatches.      *)

\* The destination is the name "localhost" or a loopback IP
LocalDest ==
    \/ req.DestAddr.FQDN = <<108, 111, 99, 97, 108, 104, 111, 115, 116>>
    \/ IsLoopback(req.DestAddr.IP)

\* handleRequest has not gone past its policy check, or has returned from it
\* with the policy error and nothing written
DeniedSilently ==
    /\ pc \in {"resolve", "policy", "returned"}
    /\ connOut = <<>>
    /\ NoRelayIO
    /\ pc = "returned" => ret[1].kind = "localhostNotAllowed"

\* C14, as stated: when AllowLocalDestination is false and the destination is
\* the name "localhost" or a loopback IP, handleRequest returns a policy error
\* with no reply written, no dial and no UDP socket, for every command.
C14_LocalDenied == (~allowLocal /\ LocalDest) => DeniedSilently

\* C14, amended: the same, provided the resolver did not fail on the request's
\* name; when it failed, the request ends in the resolver's failure path, with
\* its hostUnreachable reply, also without a dial or a UDP socket.
C14_LocalDeniedAfterResolve ==
    (~allowLocal /\ LocalDest)
        => IF ResolveFailed
           THEN /\ pc = "returned"
                /\ ret[1].kind # "localhostNotAllowed"
                /\ connOut = <<ZeroReply(4)>>
                /\ NoRelayIO
           ELSE DeniedSilently

\* A CONNECT request for a name that resolved to a loopback address has been
\* denied
C14_Witness ==
    /\ ~allowLocal
    /\ req.Command = ConnectCommand
    /\ req.DestAddr.FQDN = NameXY
    /\ IsLoopback(req.DestAddr.IP)
    /\ pc = "returned"
    /\ ret[1].kind = "localhostNotAllowed"

\* The resolver was called and failed: no context and no address came back
ResolverFailed == resolveCalls = 1 /\ ctx = "background"

\* C15: when the request carries a non-empty FQDN and the resolver fails,
\* handleRequest writes exactly one reply, with code hostUnreachable (4) and
\* the all-zero address, increments the DNS-resolve error counter once,
\* returns an error and never dispatches the command (no dial, no UDP
\* socket), whatever the command is.
C15_ResolveFailure ==
    ResolverFailed
        => /\ req.DestAddr.FQDN # <<>>
           /\ pc = "returned"
           /\ ret[1] # NoErr
           /\ connOut = <<ZeroReply(4)>>
           /\ metrics = OnlyCounter("Socks5DNSResolveErrors")
           /\ NoRelayIO

\* The resolver failed on the name of an ASSOCIATE request
C15_Witness ==
    /\ ResolverFailed
    /\ req.Command = AssociateCommand
    /\ pc = "returned"
    /\ Len(connOut) = 1

\* handleRequest returned from a handler: the request passed resolution and
\* the policy check
Dispatched ==
    /\ pc = "returned"
    /\ ~ResolverFailed
    /\ ret[1].kind # "localhostNotAllowed"

\* C16: for every request that passes resolution and policy and whose command
\* is BIND or a value outside {1,2,3}, the unsupported-command counter is
\* incremented exactly once, a commandNotSupported reply with the all-zero
\* address is written, and no dial, UDP socket or relay is started.
C16_UnsupportedCommand ==
    req.Command \notin {1, 3}
        => /\ NoRelayIO
           /\ metrics["Socks5UnsupportedCommandErrors"] = (IF Dispatched THEN 1 ELSE 0)
           /\ Dispatched => connOut = <<ZeroReply(7)>>

\* A request with command 4 for a name that resolved has been refused
C16_Witness ==
    /\ req.Command = 4
    /\ req.DestAddr.FQDN # <<>>
    /\ Dispatched
    /\ Len(connOut) = 1

----------------------------------------------------------------------------
(* Properties of the parsers.                                              *)

\* C17: readAddrSpec on a stream whose first byte is outside {1,3,4} fails
\* with the unrecognized-address-type error, returns no AddrSpec and has
\* taken exactly that one byte from the stream.
C17_UnrecognizedType ==
    (rPc = "readAddrSpec" /\ Len(rStream) >= 1 /\ rStream[1] \notin {1, 3, 4})
        => /\ rAddr.err = "unrecognizedAddrType"
           /\ rAddr.d = <<>>
           /\ rAddr.used = 1

\* readAddrSpec has been applied to a stream that starts with type 2 and
\* holds six more bytes
C17_Witness ==
    /\ rPc = "readAddrSpec"
    /\ Len(rStream) = 7
    /\ rStream[1] = 2
    /\ rAddr.err = "unrecognizedAddrType"

\* C18: NewRequest on a stream whose three header bytes start with a byte
\* other than 5 fails after taking exactly those three bytes, without parsing
\* an address and without writing anything; when it succeeds the Request has
\* Version 5, Command equal to the second header byte, whatever it is, and
\* DestAddr equal to what readAddrSpec decodes from the bytes that follow.
C18_NewRequest ==
    (rPc = "NewRequest" /\ Len(rStream) >= 3)
        => /\ connOut = <<>>
           /\ rStream[1] # 5
                 => /\ rReq.err \notin {"nil", "unrecognizedAddrType", "EOF", "unexpectedEOF"}
                    /\ rReq.req = <<>>
                    /\ rReq.used = 3
           /\ rReq.err = "nil"
                 => /\ rStream[1] = 5
                    /\ rReq.req[1].Version = 5
                    /\ rReq.req[1].Command = rStream[2]
                    /\ <<rReq.req[1].DestAddr>>
                          = readAddrSpec(SubSeq(rStream, 4, Len(rStream))).d
                    /\ rReq.used = 3 + readAddrSpec(SubSeq(rStream, 4, Len(rStream))).used

\* NewRequest has parsed a request whose command byte is 255
C18_Witness ==
    /\ rPc = "NewRequest"
    /\ rReq.err = "nil"
    /\ rReq.req[1].Command = 255
    /\ rReq.req[1].DestAddr.FQDN = NameXY

----------------------------------------------------------------------------
(* Properties of proxySocks5ConnReq.                                       *)

\* The length of the request or response that starts stream m: 4 header
\* bytes, the name's length byte when there is one, the address, 2 port bytes
MessageLen(m) ==
    IF m[4] = 1 THEN 10 ELSE IF m[4] = 4 THEN 22 ELSE 7 + m[5]

\* Stream m starts with a whole request or response of address type 1, 3 or 4
WholeMessage(m) ==
    /\ Len(m) >= 5
    /\ m[4] \in {1, 3, 4}
    /\ Len(m) >= MessageLen(m)

\* C19: for every connection request with ATYP in {1,3,4}, a name of every
\* length 0..255 included, proxySocks5ConnReq takes exactly the request's
\* bytes from the client and writes exactly those bytes to the server; the
\* server's response is delimited by the same lengths, whatever the length
\* of its bound address.
C19_ForwardsWholeRequest ==
    /\ (WholeMessage(down) /\ fPc \notin {"idle", "request"})
          => /\ downUsed = MessageLen(down)
             /\ toUp = <<SubSeq(down, 1, MessageLen(down))>>
    /\ (WholeMessage(up) /\ fPc \in {"listen", "reply"})
          => upUsed = MessageLen(up)

\* The response of the server, as far as it was sent
UpstreamResponse ==
    IF WholeMessage(up) THEN SubSeq(up, 1, MessageLen(up)) ELSE up

\* C20: when the command is ASSOCIATE the response written to the client
\* equals the server's response in every byte but the last two, which hold
\* the port of the forwarder's own UDP socket, high byte first; for any other
\* command the response written is the server's response byte for byte and no
\* UDP socket is created.
C20_ResponseRewrite ==
    /\ Len(toDown) <= 1
    /\ (down # <<>> /\ Len(down) >= 2 /\ down[2] # 3) => fUdp.state = "none"
    /\ toDown # <<>>
          => IF down[2] = 3
             THEN /\ fUdp.state = "open"
                  /\ toDown[1] = SubSeq(UpstreamResponse, 1, Len(UpstreamResponse) - 2)
                                    \o <<fUdp.port \div 256, fUdp.port % 256>>
             ELSE toDown[1] = UpstreamResponse

----------------------------------------------------------------------------
(* Properties of proxySocks5AuthReq.                                       *)

\* The client's stream starts with a whole authentication request
WholeAuthRequest ==
    /\ Len(down) >= 2
    /\ down[1] = 5
    /\ Len(down) >= 2 + down[2]

\* C21: proxySocks5AuthReq writes to the server exactly the VER, NMETHODS and
\* METHODS bytes it read from the client, for every method count, then writes
\* to the client exactly the 2 bytes it read from the server; the write to
\* the server precedes the read from the server, which precedes the write to
\* the client, and the selected method is never inspected.
C21_AuthForwarded ==
    /\ Len(toUp) <= 1 /\ Len(toDown) <= 1
    /\ (WholeAuthRequest /\ fPc # "auth")
          => /\ downUsed = 2 + down[2]
             /\ toUp = <<SubSeq(down, 1, 2 + down[2])>>
    /\ toUp # <<>> => WholeAuthRequest
    /\ upUsed > 0 => toUp # <<>>
    /\ toDown # <<>>
          => /\ upUsed = 2
             /\ toDown = <<SubSeq(up, 1, 2)>>
    /\ (fPc = "returned" /\ fRet[1].err # "nil")
          => \/ ~WholeAuthRequest
             \/ Len(up) < 2
             \/ fRet[1].err \in {"writeAuthReq", "writeAuthResp"}

\* A request with 255 methods has been forwarded and two bytes that select no
\* SOCKS5 method have been handed back, without an error
C21_Witness ==
    /\ fPc = "returned"
    /\ fRet[1].err = "nil"
    /\ Len(down) = 257
    /\ toDown = <<(<<4, 7>>)>>

----------------------------------------------------------------------------
(* Order of the steps of handleRequest.                                    *)

\* C22: the resolver is invoked only for a non-empty FQDN, at most once and
\* before the localhost policy check; the policy check precedes any dial, UDP
\* socket creation or handler reply; after a successful resolution
\* DestAddr.IP is the resolved address, and the CONNECT dial targets that IP,
\* not the name, with the context the resolver returned.
C22_ResolveThenPolicyThenDial ==
    /\ resolveCalls = (IF req.DestAddr.FQDN # <<>> /\ pc # "resolve" THEN 1 ELSE 0)
    /\ pc \in {"resolve", "policy"} => connOut = <<>> /\ NoRelayIO
    /\ (dials # <<>> \/ udpConn # "none") => (allowLocal \/ ~LocalDest)
    /\ (req.DestAddr.FQDN # <<>> /\ pc # "resolve" /\ ~ResolverFailed)
          => /\ ctx = "resolver"
             /\ req.DestAddr.IP \in {<<93, 184, 216, 34>>, <<127, 0, 0, 1>>}
    /\ Len(dials) <= 1
    /\ dials # <<>>
          => /\ req.Command = 1
             /\ dials[1].addr = [host |-> <<"ip", req.DestAddr.IP>>,
                                 port |-> req.DestAddr.Port]
             /\ dials[1].ctx = (IF req.DestAddr.FQDN # <<>> THEN "resolver"
                                                            ELSE "background")

\* A CONNECT request for a name has been dialed at the address the resolver
\* returned
C22_Witness ==
    /\ req.Command = ConnectCommand
    /\ req.DestAddr.FQDN = NameXY
    /\ Len(dials) = 1
    /\ dials[1].addr.host = <<"ip", IPv4Public>>
    /\ dials[1].ctx = "resolver"

----------------------------------------------------------------------------
(* Properties of handleAssociate.                                          *)

\* Neither pump has been started
NoPump ==
    /\ outPc = "idle" /\ inPc = "idle"
    /\ tunnelReads = <<>> /\ udpReads = <<>>
    /\ udpWrites = <<>> /\ tunnelWrites = <<>>

\* C23: handleAssociate writes its success reply, with bound address 0.0.0.0
\* and the port of the UDP socket it just created, exactly once and before
\* either pump reads anything from the tunnel or the UDP socket; if writing
\* that reply fails, no pump is started.
C23_AssociateReplyFirst ==
    req.Command = AssociateCommand
        => /\ pc \in {"resolve", "policy", "dispatch", "associateReply"}
                 => connOut = <<>> /\ NoPump
           /\ pc = "pumps"
                 => connOut = <<(<<5, 0, 0, 1, 0, 0, 0, 0,
                                   udpPort \div 256, udpPort % 256>>)>>
           /\ ~NoPump
                 => connOut = <<(<<5, 0, 0, 1, 0, 0, 0, 0,
                                   udpPort \div 256, udpPort % 256>>)>>
           /\ (pc = "returned" /\ ret[1].kind = "sendReply") => NoPump

\* Both pumps have read a datagram after the success reply
C23_Witness ==
    /\ req.Command = AssociateCommand
    /\ pc = "pumps"
    /\ Len(connOut) = 1
    /\ tunnelReads # <<>>
    /\ udpReads # <<>>

\* C24: handleAssociate returns only after both pumps have terminated, and
\* whenever it returns after starting the pumps the error box holds an error:
\* the value returned is a non-nil error and the final type assertion on the
\* box does not fail.
C24_ReturnsStoredError ==
    /\ (pc = "returned" /\ outPc # "idle")
          => /\ outPc = "done" /\ inPc = "done"
             /\ udpErr # <<>>
             /\ ret = udpErr
             /\ ret[1] # NoErr
    /\ (outPc = "done" /\ inPc = "done") => udpErr # <<>> /\ udpErr[1] # NoErr
    /\ crashed => (outPc = "panicked" \/ inPc = "panicked")

\* handleAssociate has returned the error of a failed tunnel read after both
\* pumps ended
C24_Witness ==
    /\ pc = "returned"
    /\ outPc = "done" /\ inPc = "done"
    /\ ret = udpErr
    /\ ret[1].kind = "tunnelRead"

\* C25: the outbound pump handles datagrams one at a time in the order they
\* are read from the tunnel: the UDP write for datagram k is issued before
\* datagram k+1 is read, so the UDP writes are, in the same order, writes for
\* a subsequence of the tunnel reads.
C25_OutboundInOrder ==
    /\ \A i \in 1..Len(udpWrites) :
          /\ udpWrites[i].k \in 1..Len(tunnelReads)
          /\ LET d == tunnelReads[udpWrites[i].k] IN
             /\ Len(d) > 6
             /\ d[4] \in {ipv4Address, fqdnAddress, ipv6Address}
             /\ Len(d) >= HeaderLen(d)
             /\ udpWrites[i].dst = EmbeddedDst(d)
          /\ i > 1 => udpWrites[i - 1].k < udpWrites[i].k
    /\ (outPc = "process" /\ outErr = NoErr)
          => \A i \in 1..Len(udpWrites) : udpWrites[i].k < Len(tunnelReads)

\* Two datagrams for different destinations have been read and forwarded
C25_Witness ==
    /\ Len(tunnelReads) = 2
    /\ Len(udpWrites) = 2
    /\ udpWrites[1].k = 1 /\ udpWrites[2].k = 2
    /\ udpWrites[1].dst # udpWrites[2].dst

\* The outbound pump has dealt with a valid datagram without a panic, and the
\* resolution of its name or its UDP write failed
SendFailed ==
    /\ outPc = "process" /\ outPc' # "process" /\ outPc' # "panic"
    /\ verdicts' = Append(verdicts, "nil")
    /\ \/ udpWrites' = udpWrites
       \/ /\ Len(udpWrites') = Len(udpWrites) + 1
          /\ ~udpWrites'[Len(udpWrites')].ok

\* C26: a failed UDP write or a failed resolution of an embedded FQDN for one
\* valid datagram increments the UDP-associate error counter by one, stores
\* no session error and leaves the UDP socket open, and the outbound pump
\* goes on to read the next datagram from the tunnel.
C26_SendFailureGoesOn ==
    [][SendFailed
         => /\ metrics' = [metrics EXCEPT !["Socks5UDPAssociateErrors"] = @ + 1]
            /\ udpErr' = udpErr
            /\ udpConn = "open" /\ udpConn' = "open"
            /\ closeCalls' = 0
            /\ outPc' = "read"]_vars

\* A datagram has been read from the tunnel after a failed UDP write and a
\* failed resolution
C26_Witness ==
    /\ Len(tunnelReads) = 2
    /\ Len(verdicts) = 2
    /\ verdicts[1] = "nil"
    /\ Len(udpWrites) = 1
    /\ ~udpWrites[1].ok
    /\ metrics["Socks5UDPAssociateErrors"] = 2
    /\ udpErr = <<>>
    /\ outPc = "read"

\* C27: termination of the inbound pump, by a UDP socket read failure or by a
\* tunnel write failure, never changes the UDP-associate error counter; after
\* the pumps start, that counter is changed only by the outbound pump.
C27_InboundNotCounted ==
    [][/\ inPc' # inPc
          => metrics'["Socks5UDPAssociateErrors"] = metrics["Socks5UDPAssociateErrors"]
       /\ (pc = "pumps"
            /\ metrics'["Socks5UDPAssociateErrors"] # metrics["Socks5UDPAssociateErrors"])
          => (outPc = "process" /\ outPc' # outPc /\ inPc' = inPc)]_vars

\* The inbound pump has ended on a failed tunnel write after the outbound
\* pump counted an error
C27_Witness ==
    /\ inPc = "done"
    /\ inErr.kind = "tunnelWrite"
    /\ udpErr = <<inErr>>
    /\ metrics["Socks5UDPAssociateErrors"] = 1

----------------------------------------------------------------------------
(* Replies of one request.                                                 *)

\* C28: no execution of handleRequest writes more than one reply message to
\* the client connection: once a reply has been written, no later failure
\* (failed relay, failed pump, failed reply write) causes a second one.
C28_AtMostOneReply ==
    /\ [](Len(connOut) <= 1)
    /\ [][connOut # <<>> => connOut' = connOut]_vars

\* A CONNECT request was answered and its relay failed afterwards
C28_Witness ==
    /\ req.Command = ConnectCommand
    /\ pc = "returned"
    /\ ret[1].kind = "relay"
    /\ Len(connOut) = 1

----------------------------------------------------------------------------
(* The error box of a UDP session.                                         *)

\* The box is empty or holds an error of concrete type t
BoxTakes(t) == udpErr = <<>> \/ udpErr[1].typ = t

\* The inbound pump makes its udpErr.Store(err)
InboundStores == inPc = "store" /\ inPc' # inPc

\* The outbound pump makes a udpErr.Store: of the error of a failed tunnel
\* read, or of the stderror value for a datagram it rejects
OutboundStores ==
    /\ outPc = "process" /\ outPc' # outPc
    /\ \/ outErr # NoErr
       \/ /\ Len(verdicts') = Len(verdicts) + 1
          /\ verdicts'[Len(verdicts')] # "nil"

\* C29: every store into the session's error box succeeds in every
\* interleaving of the two pumps: no pump stores an error whose concrete type
\* differs from that of the error already in the box.
C29_StoresSucceed ==
    [][/\ InboundStores
          => /\ BoxTakes(inErr.typ)
             /\ udpErr' = <<inErr>>
             /\ inPc' = "done"
       /\ OutboundStores
          => /\ BoxTakes(IF outErr # NoErr THEN outErr.typ ELSE "errorString")
             /\ udpErr' # <<>>
             /\ outPc' = "exit"]_vars

----------------------------------------------------------------------------
(* The UDP socket of a session when handleAssociate returns.               *)

\* net.ListenUDP succeeded in this execution of handleAssociate
SocketCreated == udpConn # "none"

\* C30: on every return path of handleAssociate after the UDP socket has been
\* created, a failure to write the success reply included, the socket has
\* been closed when the handler returns.
C30_SocketClosedOnReturn ==
    (pc = "returned" /\ req.Command = AssociateCommand /\ SocketCreated)
        => udpConn = "closed"

----------------------------------------------------------------------------
(* The UDP socket of proxySocks5ConnReq.                                   *)

\* proxySocks5ConnReq has returned an error
ProxyFailed == fPc = "returned" /\ fRet # <<>> /\ fRet[1].err # "nil"

\* C31: proxySocks5ConnReq returns a UDP socket exactly when it returns no
\* error and the command was ASSOCIATE, and whenever it returns an error the
\* UDP socket it created in that call, if any, has been closed.
C31_SocketOnlyOnSuccess ==
    /\ (fPc = "returned" /\ fRet # <<>>)
          => (fRet[1].udp <=> (fRet[1].err = "nil" /\ fCmd = AssociateCommand))
    /\ ProxyFailed => fUdp.state \in {"none", "closed"}

----------------------------------------------------------------------------
(* The offsets of the outbound pump.                                       *)

\* The turn took a datagram with ATYP = 3 past the length guard
NameForwarded ==
    /\ turnPc \in {"sent", "panic"}
    /\ turnOut # <<>> /\ turnOut[1].fwd # <<>>
    /\ BufAt(turnBuf, 3) = fqdnAddress

\* C32: for a datagram with ATYP = 3 that passes the length guard, with any
\* declared name length L in 0..255, the name is bytes [5, 5+L), the port is
\* the big-endian pair at offsets 5+L and 6+L and the payload starts at
\* offset 7+L: no offset wraps around at 256.
C32_NameOffsets ==
    NameForwarded =>
        LET l == BufAt(turnBuf, 4)
            f == turnOut[1].fwd[1]
        IN /\ ~f.namePanic
           /\ f.dst.host = <<"name", SliceBuf(turnBuf, 5, 5 + l).data>>
           /\ f.dst.port = BufAt(turnBuf, 5 + l) * ByteMod + BufAt(turnBuf, 6 + l)
           /\ f.payload = SliceBuf(turnBuf, 7 + l, PayloadEnd(turnN))

\* C33: the outbound pump makes no out-of-range index or slice access on its
\* buffer, for every datagram size n from 1 to 65536 and every header.
C33_NoSlicePanic == turnPc # "panic"

----------------------------------------------------------------------------
(* All or nothing in proxySocks5ConnReq.                                   *)

\* C34: proxySocks5ConnReq forwards all or nothing in each direction: nothing
\* is written to the server unless the complete request of the client
\* (header, address, port) was read with ATYP in {1,3,4}, and nothing is
\* written to the client unless the complete response of the server was read
\* with ATYP in {1,3,4}.
C34_AllOrNothing ==
    /\ toUp # <<>>
          => /\ WholeMessage(down)
             /\ downUsed = MessageLen(down)
    /\ toDown # <<>>
          => /\ WholeMessage(up)
             /\ upUsed = MessageLen(up)

====
